---- MODULE Spec2Model ----
(***************************************************************************)
(* Sysrai platform: the credit ledger, the pricing calculators, the GPU    *)
(* capacity orchestrator and the token service, as state machines.         *)
(*                                                                         *)
(* Two applications live in the repository and are modelled side by side:  *)
(*   - the "main" application        (main.py, crud.py, pricing.py)        *)
(*   - the "monetization" application (film_platform/                      *)
(*     monetization_platform.py with PricingEngine of                      *)
(*     skyreels_film_platform.py)                                          *)
(*                                                                         *)
(* Money is a Python float in the source.  Every amount the code computes  *)
(* is a multiple of 0.5 credit, which binary floating point represents     *)
(* exactly, so the model counts money in hundredths of a credit (3.00 is   *)
(* 300) and multipliers in percent (1.5 is 150).                           *)
(***************************************************************************)
EXTENDS Integers, Sequences, FiniteSets, TLC

VARIABLES
    \* ---- pricing calculators (pure functions under test)
    p_req,          \* the pricing request being evaluated
    p_pc,           \* "input" before the calculators ran, "done" after
    p_cost,         \* result of pricing.calculate_project_cost
    p_engine,       \* result of PricingEngine.calculate_project_cost
    \* ---- GPU capacity orchestrator (monetization application)
    g_nodes,        \* the gpu_nodes table: a sequence of rows, a row's id is its index
    g_up,           \* the scale_up call in flight (suspended on a provider launch)
    g_down,         \* the scale_down call in flight (suspended on a provider terminate)
    g_ret,          \* what the last orchestrator call returned
    \* ---- main application (main.py, crud.py)
    m_users,        \* the users table: a row's id is its index
    m_projects,     \* the projects table
    m_transactions, \* the transactions table
    m_req,          \* the POST /api/v1/projects request between its two commits
    m_resp,         \* the last HTTP response
    m_tasks,        \* the background tasks generate_film_async, one per entry
    \* ---- requests that run side by side against one database
    w_calls,        \* per server process, the request it is in the middle of
    \* ---- the RunPod client shared by the background tasks (runpod_api.py)
    r_pod,          \* the status of the pod RUNPOD_POD_ID at the provider
    r_films,        \* per background task, its call of generate_film
    \* ---- the video backend (skyreels-api/skyreels_api_server.py)
    v_queue,        \* video_queue: the jobs accepted and not yet taken
    v_processing,   \* processing_jobs
    v_completed,    \* completed_jobs
    v_tasks,        \* background tasks process_video_queue added and not run
    v_next,         \* the jobs accepted so far: the next video_id is v_next + 1
    \* ---- monetization application (film_platform/monetization_platform.py)
    l_users,        \* the users table: a row's id is its index
    l_projects,     \* the projects table
    l_transactions, \* the transactions table
    l_resp,         \* the outcome of the last request or CreditManager call
    \* ---- bearer tokens of the monetization application
    a_now,          \* the clock (datetime.utcnow()), in hours
    a_tokens,       \* the tokens issued so far
    a_resp          \* the outcome of the last protected call

pvars == <<p_req, p_pc, p_cost, p_engine>>
gvars == <<g_nodes, g_up, g_down, g_ret>>
mvars == <<m_users, m_projects, m_transactions, m_req, m_resp, m_tasks>>
wvars == <<w_calls>>
fvars == <<r_pod, r_films>>
vvars == <<v_queue, v_processing, v_completed, v_tasks, v_next>>
lvars == <<l_users, l_projects, l_transactions, l_resp>>
avars == <<a_now, a_tokens, a_resp>>

vars == <<p_req, p_pc, p_cost, p_engine, g_nodes, g_up, g_down, g_ret,
          m_users, m_projects, m_transactions, m_req, m_resp, m_tasks, w_calls,
          l_users, l_projects, l_transactions, l_resp,
          a_now, a_tokens, a_resp,
          r_pod, r_films, v_queue, v_processing, v_completed, v_tasks, v_next>>

\* no result yet
NoCost == [none |-> TRUE]

\* the pricing calculators while another part of the system is examined
PricingAtRest ==
    /\ p_req = NoCost
    /\ p_pc = "off"
    /\ p_cost = NoCost
    /\ p_engine = NoCost

(***************************************************************************)
(* Bounds of the model.                                                    *)
(***************************************************************************)
MaxDuration == 12
MaxNodes == 2           \* rows of gpu_nodes
MaxProjects == 2        \* project ids handed to the orchestrator
MaxCount == 2           \* the count of a scale request
MaxUsers == 2           \* distinct e-mail addresses that register
MaxTx == 2              \* rows of a transactions table
MaxWorkers == 2         \* server processes on one database

\* the quality values of a request: the three of the table and one it lacks
Qualities == {"standard", "premium", "ultra", "cinematic"}

(***************************************************************************)
(* pricing.py: PRICING                                                     *)
(***************************************************************************)
script_per_minute == 100
video_per_minute == 300
storyboard_flat == 1000

\* PRICING["quality_multipliers"], in percent
quality_multipliers == [standard |-> 100, premium |-> 150, ultra |-> 200]

\* dict.get(quality, 1.0)
QualityMultiplier(quality) ==
    IF quality \in DOMAIN quality_multipliers
    THEN quality_multipliers[quality]
    ELSE 100

\* pricing.calculate_project_cost
calculate_project_cost(duration_minutes, include_script, include_storyboard, quality) ==
    LET video == duration_minutes * video_per_minute
        script == IF include_script THEN duration_minutes * script_per_minute ELSE 0
        storyboard == IF include_storyboard THEN storyboard_flat ELSE 0
        subtotal == video + script + storyboard
        quality_multiplier == QualityMultiplier(quality)
    IN  [video |-> video,
         script |-> script,
         storyboard |-> storyboard,
         subtotal |-> subtotal,
         quality_multiplier |-> quality_multiplier,
         total |-> (subtotal * quality_multiplier) \div 100]

(***************************************************************************)
(* skyreels_film_platform.py: PricingEngine                                *)
(***************************************************************************)
\* PricingEngine.BASE_RATES
engine_script_per_minute == 100
engine_video_per_minute == 300
engine_storyboard_flat == 1000
rush_multiplier == 200
premium_quality == 150

\* the quality fee branch: only "premium" is recognised
EngineQualityFee(subtotal, quality) ==
    IF quality = "premium"
    THEN (subtotal * (premium_quality - 100)) \div 100
    ELSE 0

\* profit_percentage = profit_margin / total * 100 divides by the total:
\* a total of 0.0 raises ZeroDivisionError and nothing is returned
EngineRaises(total) == total = 0

\* PricingEngine.calculate_project_cost
PricingEngine_calculate_project_cost(duration_minutes, include_script, include_storyboard, quality, rush) ==
    LET video_generation == duration_minutes * engine_video_per_minute
        script_writing ==
            IF include_script THEN duration_minutes * engine_script_per_minute ELSE 0
        storyboarding == IF include_storyboard THEN engine_storyboard_flat ELSE 0
        subtotal == video_generation + script_writing + storyboarding
        quality_fee == EngineQualityFee(subtotal, quality)
        rush_fee == IF rush THEN (subtotal * (rush_multiplier - 100)) \div 100 ELSE 0
        total == subtotal + quality_fee + rush_fee
    IN  [video_generation |-> video_generation,
         script_writing |-> script_writing,
         storyboarding |-> storyboarding,
         subtotal |-> subtotal,
         rush_fee |-> rush_fee,
         quality_fee |-> quality_fee,
         total |-> total,
         raises |-> EngineRaises(total)]

(***************************************************************************)
(* film_platform/monetization_platform.py: GPUOrchestrator                 *)
(*                                                                         *)
(* The handlers are coroutines on one event loop: a handler runs without   *)
(* interruption up to an await on a provider adapter (launch_instances,    *)
(* terminate_instance), where other handlers may run.  Each action below   *)
(* is one such uninterrupted stretch.  Every handler has its own database  *)
(* session: rows added or changed are written at its commit, and a changed *)
(* attribute is written as an UPDATE of that column alone.                 *)
(***************************************************************************)
None == 0

\* the providers in the order of their names
ProviderOrderByName == <<"lambda", "runpod", "vast">>

\* the provider order of scale_up: 'vast', 'runpod', 'lambda'
ProviderOrder == <<"vast", "runpod", "lambda">>

\* hourly cost of an rtx4090 instance, per provider adapter (in hundredths)
HourlyCost(provider_name) ==
    CASE provider_name = "vast" -> 35
      [] provider_name = "runpod" -> 44
      [] provider_name = "lambda" -> 50

\* GPUNode.performance_score default (1.0)
DefaultPerformanceScore == 100

\* "Max 5 per provider at once"
MaxPerProvider == 5

Min(a, b) == IF a < b THEN a ELSE b

Range(f) == {f[i] : i \in DOMAIN f}

\* the row scale_up adds for one launched instance
NewNode(provider_name) ==
    [provider |-> provider_name,
     gpu_type |-> "rtx4090",
     hourly_cost |-> HourlyCost(provider_name),
     status |-> "available",
     current_project_id |-> None,
     performance_score |-> DefaultPerformanceScore]

\* n copies of x as a sequence
Repeat(x, n) == [i \in 1 .. n |-> x]

UpIdle == [pc |-> "idle", caller |-> "none", project_id |-> None,
           required_capacity |-> 0, nodes_to_add |-> 0, provider |-> 0,
           new_nodes |-> <<>>]

DownIdle == [pc |-> "idle", idle_nodes |-> <<>>, terminated |-> <<>>]

NoReturn == [op |-> "none"]

GpuAtRest ==
    /\ g_nodes = <<>>
    /\ g_up = UpIdle
    /\ g_down = DownIdle
    /\ g_ret = NoReturn

\* GPUNode.status == 'available' count
AvailableCount(nodes) ==
    Cardinality({i \in DOMAIN nodes : nodes[i].status = "available"})

\* what a scale_up call returns to its caller
ScaleUpReturn(caller, project_id, new_nodes, calls) ==
    IF caller = "assign"
    THEN [op |-> "assign", project_id |-> project_id, node_id |-> None,
          scale_up_calls |-> calls]
    ELSE [op |-> "scale_up", added |-> Len(new_nodes)]

\* scale_up up to its first await: the count query, the early return, the
\* first provider's launch request
scale_up(required_capacity, caller, project_id) ==
    LET current_nodes == AvailableCount(g_nodes)
        nodes_to_add == required_capacity - current_nodes
    IN  /\ g_up.pc = "idle"
        /\ IF current_nodes >= required_capacity
           THEN /\ g_ret' = ScaleUpReturn(caller, project_id, <<>>,
                                          <<required_capacity>>)
                /\ UNCHANGED <<g_nodes, g_up>>
           ELSE /\ Len(g_nodes) + nodes_to_add <= MaxNodes
                /\ g_up' = [pc |-> "launch", caller |-> caller,
                            project_id |-> project_id,
                            required_capacity |-> required_capacity,
                            nodes_to_add |-> nodes_to_add,
                            provider |-> 1, new_nodes |-> <<>>]
                /\ UNCHANGED <<g_nodes, g_ret>>

\* the rows of gpu_nodes after scale_up's commit
NodesAfterScaleUp(nodes, new_nodes) == nodes \o new_nodes

\* a provider's launch_instances returns: the launched instances become
\* pending rows; then the next provider is asked, or the rows are committed
ScaleUpLaunch ==
    /\ g_up.pc = "launch"
    /\ \E launched \in 0 .. Min(g_up.nodes_to_add, MaxPerProvider) :
         LET new_nodes == g_up.new_nodes
                          \o Repeat(NewNode(ProviderOrder[g_up.provider]), launched)
             nodes_to_add == g_up.nodes_to_add - launched
         IN  IF g_up.provider < Len(ProviderOrder) /\ nodes_to_add > 0
             THEN /\ g_up' = [g_up EXCEPT !.provider = @ + 1,
                                          !.nodes_to_add = nodes_to_add,
                                          !.new_nodes = new_nodes]
                  /\ UNCHANGED <<g_nodes, g_ret>>
             ELSE /\ g_nodes' = NodesAfterScaleUp(g_nodes, new_nodes)
                  /\ g_up' = UpIdle
                  /\ g_ret' = ScaleUpReturn(g_up.caller, g_up.project_id,
                                            new_nodes, <<g_up.required_capacity>>)
    /\ UNCHANGED g_down

\* the filter of scale_down's query: status available and no current project
IsIdle(node) == node.status = "available" /\ node.current_project_id = None

\* the results scale_down's query may return: up to excess_capacity idle rows,
\* highest hourly cost first (rows of equal cost in any order)
IdleSelections(nodes, excess_capacity) ==
    LET idle == {i \in DOMAIN nodes : IsIdle(nodes[i])}
        m == Min(excess_capacity, Cardinality(idle))
    IN  {s \in [1 .. m -> idle] :
            /\ \A a, b \in 1 .. m : a < b =>
                  /\ s[a] # s[b]
                  /\ nodes[s[a]].hourly_cost >= nodes[s[b]].hourly_cost
            /\ \A j \in idle \ Range(s) : \A a \in 1 .. m :
                  nodes[j].hourly_cost <= nodes[s[a]].hourly_cost}

\* scale_down up to its first await
scale_down(excess_capacity) ==
    /\ g_down.pc = "idle"
    /\ \E idle_nodes \in IdleSelections(g_nodes, excess_capacity) :
         IF idle_nodes = <<>>
         THEN /\ g_ret' = [op |-> "scale_down", terminated |-> <<>>]
              /\ UNCHANGED g_down
         ELSE /\ g_down' = [pc |-> "terminate", idle_nodes |-> idle_nodes,
                            terminated |-> <<>>]
              /\ UNCHANGED g_ret
    /\ UNCHANGED <<g_nodes, g_up>>

\* a commit that marks every idle row, whatever the provider answered
AllIdleNodesTerminated(nodes, terminated) ==
    [i \in DOMAIN nodes |->
        IF IsIdle(nodes[i])
        THEN [nodes[i] EXCEPT !.status = "terminated"]
        ELSE nodes[i]]

\* scale_down's commit: the status column of every row it marked
NodesAfterScaleDown(nodes, terminated) ==
    [i \in DOMAIN nodes |->
        IF i \in Range(terminated)
        THEN [nodes[i] EXCEPT !.status = "terminated"]
        ELSE nodes[i]]

\* provider.terminate_instance returns ok for the first row left: the row is
\* marked on True; after the last row the call commits and returns
TerminateReturns(ok) ==
    LET terminated == IF ok THEN Append(g_down.terminated, Head(g_down.idle_nodes))
                      ELSE g_down.terminated
        rest == Tail(g_down.idle_nodes)
    IN  IF rest # <<>>
        THEN /\ g_down' = [g_down EXCEPT !.idle_nodes = rest,
                                         !.terminated = terminated]
             /\ UNCHANGED <<g_nodes, g_ret>>
        ELSE /\ g_nodes' = NodesAfterScaleDown(g_nodes, terminated)
             /\ g_down' = DownIdle
             /\ g_ret' = [op |-> "scale_down", terminated |-> terminated]

\* a provider's terminate_instance returns for the first row left
ScaleDownTerminate ==
    /\ g_down.pc = "terminate"
    /\ \E ok \in BOOLEAN : TerminateReturns(ok)
    /\ UNCHANGED g_up

\* the GPU classes of the duration tier
GpuTypesFor(duration_minutes) ==
    IF duration_minutes <= 30 THEN {"rtx4090", "a100_40gb"}
    ELSE IF duration_minutes <= 90 THEN {"a100_40gb", "a100_80gb"}
    ELSE {"a100_80gb", "h100"}

\* a filter on the status alone, which takes any available node
CandidatesAnyClass(nodes, duration_minutes) ==
    {i \in DOMAIN nodes : nodes[i].status = "available"}

\* the filter of assign_project_to_node's query
Candidates(nodes, duration_minutes) ==
    {i \in DOMAIN nodes :
        /\ nodes[i].status = "available"
        /\ nodes[i].gpu_type \in GpuTypesFor(duration_minutes)}

\* a query without order_by: any row that passes the filter may come first
BestNodesUnordered(nodes, duration_minutes) ==
    Candidates(nodes, duration_minutes)

\* order_by(performance_score.desc(), hourly_cost.asc()).first(): the rows
\* that may come first
BestNodes(nodes, duration_minutes) ==
    LET c == Candidates(nodes, duration_minutes)
    IN  {i \in c : \A j \in c :
            \/ nodes[i].performance_score > nodes[j].performance_score
            \/ /\ nodes[i].performance_score = nodes[j].performance_score
               /\ nodes[i].hourly_cost <= nodes[j].hourly_cost}

\* assign_project_to_node up to its first await (none when a node is found)
assign_project_to_node(project_id, duration_minutes) ==
    IF BestNodes(g_nodes, duration_minutes) = {}
    THEN /\ scale_up(1, "assign", project_id)
         /\ UNCHANGED g_down
    ELSE /\ \E node \in BestNodes(g_nodes, duration_minutes) :
              /\ g_nodes' = [g_nodes EXCEPT ![node].status = "busy",
                                            ![node].current_project_id = project_id]
              /\ g_ret' = [op |-> "assign", project_id |-> project_id,
                           node_id |-> node, scale_up_calls |-> <<>>]
         /\ UNCHANGED <<g_up, g_down>>

(***************************************************************************)
(* Specification of the orchestrator: scale requests and assignments       *)
(* arrive in any order and interleave at the awaits.                       *)
(***************************************************************************)
\* one duration on each side of the tier limits 30 and 90
TierDurations == {30, 31, 90, 91}

\* a project is handed to assign_project_to_node while no node serves it
Unassigned(project_id) ==
    \A i \in DOMAIN g_nodes : g_nodes[i].current_project_id # project_id

ScaleUpRequest ==
    /\ \E count \in 1 .. MaxCount : scale_up(count, "api", None)
    /\ UNCHANGED g_down

ScaleDownRequest == \E count \in 1 .. MaxCount : scale_down(count)

AssignRequest ==
    \E project_id \in 1 .. MaxProjects, duration_minutes \in TierDurations :
        /\ Unassigned(project_id)
        /\ assign_project_to_node(project_id, duration_minutes)

\* assign_project_to_node against the gpu_nodes table from another server
\* process: "Find best available node", the SELECT.  Without a node the call
\* goes on as in assign_project_to_node above.
W_AssignQuery(w, project_id, duration_minutes) ==
    /\ w_calls[w].pc = "idle"
    /\ Unassigned(project_id)
    /\ \A v \in DOMAIN w_calls :
          w_calls[v].pc = "assign" => w_calls[v].project_id # project_id
    /\ IF BestNodes(g_nodes, duration_minutes) = {}
       THEN /\ scale_up(1, "assign", project_id)
            /\ UNCHANGED <<g_down, w_calls>>
       ELSE /\ \E node \in BestNodes(g_nodes, duration_minutes) :
                 w_calls' = [w_calls EXCEPT ![w] =
                     [pc |-> "assign", project_id |-> project_id, node |-> node]]
            /\ UNCHANGED gvars

\* "Assign project": the row read by the query is written back as busy with
\* the caller's project, and the transaction commits
W_AssignCommit(w) ==
    LET c == w_calls[w]
    IN  /\ c.pc = "assign"
        /\ g_nodes' = [g_nodes EXCEPT ![c.node].status = "busy",
                                      ![c.node].current_project_id = c.project_id]
        /\ g_ret' = [op |-> "assign", project_id |-> c.project_id,
                     node_id |-> c.node, scale_up_calls |-> <<>>]
        /\ w_calls' = [w_calls EXCEPT ![w] = [pc |-> "idle"]]
        /\ UNCHANGED <<g_up, g_down>>


\* a caller that takes "return None  # Will retry" at its word: the first
\* call of assign_project_to_node for a project; on None the caller keeps the
\* project to call again
R_FirstAttempt(w, project_id, duration_minutes) ==
    /\ w_calls[w].pc = "idle"
    /\ Unassigned(project_id)
    /\ \A v \in DOMAIN w_calls :
          w_calls[v].pc = "retry" => w_calls[v].project_id # project_id
    /\ assign_project_to_node(project_id, duration_minutes)
    /\ w_calls' = IF BestNodes(g_nodes, duration_minutes) = {}
                  THEN [w_calls EXCEPT ![w] =
                          [pc |-> "retry", project_id |-> project_id,
                           duration_minutes |-> duration_minutes]]
                  ELSE w_calls

\* the caller calls assign_project_to_node again once the call before has
\* returned None, until a call returns a node id
R_Retry(w) ==
    /\ w_calls[w].pc = "retry"
    /\ g_up.pc = "idle"
    /\ assign_project_to_node(w_calls[w].project_id, w_calls[w].duration_minutes)
    /\ w_calls' = IF BestNodes(g_nodes, w_calls[w].duration_minutes) = {}
                  THEN w_calls
                  ELSE [w_calls EXCEPT ![w] = [pc |-> "idle"]]

\* a provider launches every instance it is asked for (as the adapters of
\* the repository do): the scale_up commits after its first provider
LaunchSucceeds ==
    /\ ScaleUpLaunch
    /\ g_up'.pc = "idle"
    /\ Len(g_nodes') = Len(g_nodes) + g_up.nodes_to_add

(***************************************************************************)
(* main.py, crud.py: the main application.                                 *)
(*                                                                         *)
(* A handler of main.py has no await: it runs from the request to the      *)
(* response without another handler in between.  POST /api/v1/projects     *)
(* commits twice (crud.create_project, then crud.use_credits); the state   *)
(* between the two commits is on disk, and the request may end there when  *)
(* the process stops or the second commit fails.                           *)
(***************************************************************************)
\* crud.create_user: "Free credits on signup"
SignupCredits == 1000

\* CREDIT_PACKAGES: credits + bonus of the package small
PackageCredits == {5000}

\* e-mail addresses are opaque: the next address that registers is either a
\* registered one or the first unused one
Emails == 1 .. Min(Len(m_users) + 1, MaxUsers)

NoRequest == [pc |-> "idle"]

\* the server processes that share one database
Workers == 1 .. MaxWorkers

\* no request is in the middle of its handler
WorkersAtRest == w_calls = [w \in Workers |-> NoRequest]

NoResponse == [op |-> "none", status |-> 0]

MainAtRest ==
    /\ m_users = <<>>
    /\ m_projects = <<>>
    /\ m_transactions = <<>>
    /\ m_req = NoRequest
    /\ m_resp = NoResponse
    /\ m_tasks = <<>>

\* crud.get_user_by_email
get_user_by_email(users, email) ==
    {u \in DOMAIN users : users[u].email = email}

\* crud.create_user
create_user(email) == [email |-> email, credits |-> SignupCredits]

\* POST /api/v1/auth/register
M_Register(email) ==
    /\ m_req.pc = "idle"
    /\ IF get_user_by_email(m_users, email) # {}
       THEN /\ m_resp' = [op |-> "register", status |-> 400]
            /\ UNCHANGED m_users
       ELSE /\ m_users' = Append(m_users, create_user(email))
            /\ m_resp' = [op |-> "register", status |-> 200,
                          user_id |-> Len(m_users) + 1,
                          credits |-> SignupCredits]
    /\ UNCHANGED <<m_projects, m_transactions, m_req, m_tasks>>

\* crud.add_credits: the user row and a purchase row, in one commit; an
\* unknown user id changes nothing
add_credits(user_id, amount) ==
    IF user_id \in DOMAIN m_users
    THEN /\ m_users' = [m_users EXCEPT ![user_id].credits = @ + amount]
         /\ m_transactions' = Append(m_transactions,
                [user_id |-> user_id, type |-> "purchase", credits |-> amount])
    ELSE UNCHANGED <<m_users, m_transactions>>

\* crud.use_credits: the user row and a usage row, in one commit; an unknown
\* user id changes nothing
use_credits(user_id, amount) ==
    IF user_id \in DOMAIN m_users
    THEN /\ m_users' = [m_users EXCEPT ![user_id].credits = @ - amount]
         /\ m_transactions' = Append(m_transactions,
                [user_id |-> user_id, type |-> "usage", credits |-> -amount])
    ELSE UNCHANGED <<m_users, m_transactions>>

\* a payment is credited through crud.add_credits
M_AddCredits(user_id, amount) ==
    /\ m_req.pc = "idle"
    /\ Len(m_transactions) < MaxTx
    /\ add_credits(user_id, amount)
    \* crud.add_credits returns None whether or not it found the user
    /\ m_resp' = [op |-> "add_credits", status |-> 200, user_id |-> user_id,
                  error |-> "none"]
    /\ UNCHANGED <<m_projects, m_req, m_tasks>>

\* the credit check as it would be if it only asked for a positive balance
InsufficientCreditsOnlyWhenEmpty(credits, total) == credits <= 0

\* "Check credits": current_user.credits < cost["total"]
InsufficientCredits(credits, total) == credits < total

\* crud.create_project
create_project(user_id, duration_minutes, cost) ==
    [user_id |-> user_id, duration_minutes |-> duration_minutes,
     status |-> "queued", progress |-> 0, cost |-> cost,
     metadata |-> <<"project_data">>, film_url |-> "none"]

\* POST /api/v1/projects up to the commit of crud.create_project
M_CreateProject(user_id, duration_minutes, include_script, include_storyboard, quality) ==
    LET cost == calculate_project_cost(duration_minutes, include_script,
                                       include_storyboard, quality)
    IN  /\ m_req.pc = "idle"
        /\ user_id \in DOMAIN m_users
        /\ IF InsufficientCredits(m_users[user_id].credits, cost.total)
           THEN /\ m_resp' = [op |-> "create_project", status |-> 402,
                              user_id |-> user_id, cost |-> cost.total]
                /\ UNCHANGED <<m_projects, m_req>>
           ELSE /\ Len(m_projects) < MaxProjects
                /\ Len(m_transactions) < MaxTx
                /\ m_projects' = Append(m_projects,
                        create_project(user_id, duration_minutes, cost.total))
                /\ m_req' = [pc |-> "debit", user_id |-> user_id,
                             project_id |-> Len(m_projects) + 1,
                             cost |-> cost.total,
                             include_script |-> include_script,
                             include_storyboard |-> include_storyboard]
                /\ UNCHANGED m_resp
        /\ UNCHANGED <<m_users, m_transactions, m_tasks>>

\* background_tasks.add_task(generate_film_async, project.id, project_data):
\* the names script and storyboard of the coroutine are not bound yet
NewTask(project_id, include_script, include_storyboard) ==
    [project_id |-> project_id, pc |-> "start",
     include_script |-> include_script,
     include_storyboard |-> include_storyboard,
     script |-> "unbound", storyboard |-> "unbound"]

\* POST /api/v1/projects from "Deduct credits" to the response
M_DeductCredits ==
    /\ m_req.pc = "debit"
    /\ use_credits(m_req.user_id, m_req.cost)
    /\ m_tasks' = Append(m_tasks, NewTask(m_req.project_id, m_req.include_script,
                                          m_req.include_storyboard))
    /\ m_resp' = [op |-> "create_project", status |-> 200,
                  user_id |-> m_req.user_id, cost |-> m_req.cost,
                  project_id |-> m_req.project_id]
    /\ m_req' = NoRequest
    /\ UNCHANGED m_projects

\* the request ends between the two commits: the process stops or the commit
\* of crud.use_credits fails, and the client sees an error
M_DeductFails ==
    /\ m_req.pc = "debit"
    /\ m_resp' = [op |-> "create_project", status |-> 500,
                  user_id |-> m_req.user_id, cost |-> m_req.cost,
                  project_id |-> m_req.project_id]
    /\ m_req' = NoRequest
    /\ UNCHANGED <<m_users, m_projects, m_transactions, m_tasks>>

\* the project requests of the main application: a cheap one, one with a
\* quality fee, and one that costs more than the signup credits
ProjectRequests ==
    {[duration_minutes |-> 1, include_script |-> FALSE,
      include_storyboard |-> FALSE, quality |-> "standard"],
     [duration_minutes |-> 1, include_script |-> TRUE,
      include_storyboard |-> FALSE, quality |-> "premium"],
     [duration_minutes |-> 1, include_script |-> TRUE,
      include_storyboard |-> TRUE, quality |-> "standard"]}

\* crud.get_project: the rows whose id is project_id (at most one)
get_project(projects, project_id) ==
    {k \in DOMAIN projects : k = project_id}

\* a listing that forgets the filter on the owner
get_every_project(projects, user_id) ==
    DOMAIN projects

\* crud.get_user_projects with the default skip = 0 and limit = 100
get_user_projects(projects, user_id) ==
    {k \in DOMAIN projects : projects[k].user_id = user_id}

\* GET /api/v1/projects/{project_id} called by current_user
M_GetProject(current_user, project_id) ==
    LET project == get_project(m_projects, project_id)
    IN  /\ m_req.pc = "idle"
        /\ current_user \in DOMAIN m_users
        /\ m_resp' =
             IF project = {}
             THEN [op |-> "get_project", status |-> 404,
                   user_id |-> current_user, project_id |-> project_id,
                   detail |-> "Project not found", projects |-> {}]
             ELSE IF m_projects[project_id].user_id # current_user
             THEN [op |-> "get_project", status |-> 403,
                   user_id |-> current_user, project_id |-> project_id,
                   detail |-> "Not authorized", projects |-> {}]
             ELSE [op |-> "get_project", status |-> 200,
                   user_id |-> current_user, project_id |-> project_id,
                   detail |-> "", projects |-> project]
        /\ UNCHANGED <<m_users, m_projects, m_transactions, m_req, m_tasks>>

\* GET /api/v1/projects called by current_user
M_ListProjects(current_user) ==
    /\ m_req.pc = "idle"
    /\ current_user \in DOMAIN m_users
    /\ m_resp' = [op |-> "list_projects", status |-> 200,
                  user_id |-> current_user,
                  projects |-> get_user_projects(m_projects, current_user)]
    /\ UNCHANGED <<m_users, m_projects, m_transactions, m_req, m_tasks>>

\* the project ids a client asks for: the stored ones and one that is not
ProjectIds == 1 .. Len(m_projects) + 1

(***************************************************************************)
(* main.py generate_film_async: the background task of a project.          *)
(*                                                                         *)
(* The coroutine runs up to its next await without interruption; a task's  *)
(* pc names the await it is suspended on ("script", "storyboard", "film",  *)
(* "upload") or the statement it executes next ("start", "if_storyboard"). *)
(* Every commit of a status is a step of its own.  What a backend answers  *)
(* is not decided by the program: each await returns or raises.            *)
(***************************************************************************)

\* crud.update_project_status
update_project_status(projects, project_id, status, progress) ==
    IF project_id \in DOMAIN projects
    THEN [projects EXCEPT ![project_id].status = status,
                          ![project_id].progress = progress]
    ELSE projects

\* a completion that stores the progress as the fraction 1 of 1
complete_project_as_fraction(projects, project_id) ==
    IF project_id \in DOMAIN projects
    THEN [projects EXCEPT ![project_id].status = "complete",
                          ![project_id].progress = 1,
                          ![project_id].film_url = "film_url"]
    ELSE projects

\* crud.complete_project
complete_project(projects, project_id) ==
    IF project_id \in DOMAIN projects
    THEN [projects EXCEPT ![project_id].status = "complete",
                          ![project_id].progress = 100,
                          ![project_id].film_url = "film_url"]
    ELSE projects

\* a failure that replaces the stored metadata by the error text
fail_project_overwriting(projects, project_id, error) ==
    IF project_id \in DOMAIN projects
    THEN [projects EXCEPT ![project_id].status = "failed",
                          ![project_id].metadata = <<error>>]
    ELSE projects

\* crud.fail_project: metadata = f"{project.metadata}\nError: {error}", the
\* text as a sequence of its pieces; progress is not assigned
fail_project(projects, project_id, error) ==
    IF project_id \in DOMAIN projects
    THEN [projects EXCEPT ![project_id].status = "failed",
                          ![project_id].metadata = Append(@, error)]
    ELSE projects

\* a coroutine whose local names start as None
NeverUnbound(value) == FALSE

\* reading a local name that no branch has assigned raises UnboundLocalError
Unbound(value) == value = "unbound"

\* the task leaves the coroutine
TaskDone(i) == m_tasks' = [m_tasks EXCEPT ![i].pc = "done"]

\* "Update status": generating, 10
G_Start(i) ==
    /\ m_tasks[i].pc = "start"
    /\ m_projects' = update_project_status(m_projects, m_tasks[i].project_id,
                                           "generating", 10)
    /\ m_tasks' = [m_tasks EXCEPT ![i].pc =
            IF m_tasks[i].include_script THEN "script" ELSE "if_storyboard"]
    /\ UNCHANGED <<m_users, m_transactions, m_req, m_resp>>

\* await generate_script returns or raises
G_Script(i, returns) ==
    /\ m_tasks[i].pc = "script"
    /\ IF returns
       THEN /\ m_projects' = update_project_status(m_projects,
                    m_tasks[i].project_id, "script_complete", 30)
            /\ m_tasks' = [m_tasks EXCEPT ![i].pc = "if_storyboard",
                                          ![i].script = "bound"]
       ELSE /\ m_projects' = fail_project(m_projects, m_tasks[i].project_id,
                    "Script generation failed")
            /\ TaskDone(i)
    /\ UNCHANGED <<m_users, m_transactions, m_req, m_resp>>

\* "Generate storyboard if needed" and, without it, the call of
\* runpod_client.generate_film(storyboard, ...): the arguments are evaluated
\* before anything is awaited
G_IfStoryboard(i) ==
    LET t == m_tasks[i]
    IN  /\ t.pc = "if_storyboard"
        /\ IF t.include_storyboard
           THEN IF Unbound(t.script)
                THEN /\ m_projects' = fail_project(m_projects, t.project_id,
                            "UnboundLocalError: script")
                     /\ TaskDone(i)
                ELSE /\ m_tasks' = [m_tasks EXCEPT ![i].pc = "storyboard"]
                     /\ UNCHANGED m_projects
           ELSE IF Unbound(t.storyboard)
                THEN /\ m_projects' = fail_project(m_projects, t.project_id,
                            "UnboundLocalError: storyboard")
                     /\ TaskDone(i)
                ELSE /\ m_tasks' = [m_tasks EXCEPT ![i].pc = "film"]
                     /\ UNCHANGED m_projects
        /\ UNCHANGED <<m_users, m_transactions, m_req, m_resp>>

\* await generate_storyboard returns or raises
G_Storyboard(i, returns) ==
    /\ m_tasks[i].pc = "storyboard"
    /\ IF returns
       THEN /\ m_projects' = update_project_status(m_projects,
                    m_tasks[i].project_id, "storyboard_complete", 50)
            /\ m_tasks' = [m_tasks EXCEPT ![i].pc = "film",
                                          ![i].storyboard = "bound"]
       ELSE /\ m_projects' = fail_project(m_projects, m_tasks[i].project_id,
                    "Storyboard generation failed")
            /\ TaskDone(i)
    /\ UNCHANGED <<m_users, m_transactions, m_req, m_resp>>

\* what await runpod_client.generate_film does: it returns a film, returns
\* success False with an error, or raises (start_pod, the 300 s wait for the
\* pod, the 1800 s assembly request)
FilmResults == {"success", "error", "raises"}

\* await runpod_client.generate_film ends
G_Film(i, film_result) ==
    /\ m_tasks[i].pc = "film"
    /\ IF film_result = "success"
       THEN /\ m_tasks' = [m_tasks EXCEPT ![i].pc = "upload"]
            /\ UNCHANGED m_projects
       ELSE /\ m_projects' = fail_project(m_projects, m_tasks[i].project_id,
                    IF film_result = "error" THEN "Assembly failed"
                                             ELSE "Pod failed to start")
            /\ TaskDone(i)
    /\ UNCHANGED <<m_users, m_transactions, m_req, m_resp>>

\* await upload_to_spaces returns or raises
G_Upload(i, returns) ==
    /\ m_tasks[i].pc = "upload"
    /\ m_projects' =
         IF returns THEN complete_project(m_projects, m_tasks[i].project_id)
         ELSE fail_project(m_projects, m_tasks[i].project_id, "File upload failed")
    /\ TaskDone(i)
    /\ UNCHANGED <<m_users, m_transactions, m_req, m_resp>>

\* the project requests of the generation: every combination of
\* include_script and include_storyboard
GenRequests ==
    {[duration_minutes |-> 1, include_script |-> s, include_storyboard |-> b,
      quality |-> "standard"] : s \in BOOLEAN, b \in BOOLEAN}

(***************************************************************************)
(* main.py against one database from several requests at a time.           *)
(*                                                                         *)
(* A request's dependencies (get_db, get_current_user) are resolved before *)
(* the handler body runs, and the event loop serves other requests in      *)
(* between; several server processes on one database interleave at every   *)
(* statement.  A session reads a row when it queries it and writes at its  *)
(* commit; nothing in main.py or crud.py locks a row (no with_for_update,  *)
(* no UPDATE ... SET credits = credits - x).                               *)
(***************************************************************************)

\* a users table without the unique index on email
NoUniqueIndex(users, email) == FALSE

\* models.py User.email, unique=True: the INSERT of a second row with the
\* same email fails with IntegrityError
UniqueViolation(users, email) ==
    \E u \in DOMAIN users : users[u].email = email

\* POST /api/v1/auth/register up to crud.create_user: "Check if user exists"
W_RegisterCheck(w, email) ==
    /\ w_calls[w].pc = "idle"
    /\ IF get_user_by_email(m_users, email) # {}
       THEN /\ m_resp' = [op |-> "register", status |-> 400,
                          detail |-> "Email already registered", worker |-> w,
                          email |-> email]
            /\ UNCHANGED w_calls
       ELSE /\ w_calls' = [w_calls EXCEPT ![w] = [pc |-> "insert", email |-> email]]
            /\ UNCHANGED m_resp
    /\ UNCHANGED <<m_users, m_projects, m_transactions, m_req, m_tasks>>

\* POST /api/v1/auth/register: the commit of crud.create_user; the
\* IntegrityError of a lost race is not caught and the client sees a 500
W_RegisterInsert(w) ==
    /\ w_calls[w].pc = "insert"
    /\ IF UniqueViolation(m_users, w_calls[w].email)
       THEN /\ m_resp' = [op |-> "register", status |-> 500,
                          detail |-> "IntegrityError", worker |-> w,
                          email |-> w_calls[w].email]
            /\ UNCHANGED m_users
       ELSE /\ Len(m_users) < MaxUsers + 1
            /\ m_users' = Append(m_users, create_user(w_calls[w].email))
            /\ m_resp' = [op |-> "register", status |-> 200,
                          detail |-> "", worker |-> w,
                          email |-> w_calls[w].email]
    /\ w_calls' = [w_calls EXCEPT ![w] = NoRequest]
    /\ UNCHANGED <<m_projects, m_transactions, m_req, m_tasks>>

\* the project request that races with itself: the signup credits cover it
\* once and not twice
WorkerRequests ==
    {r \in ProjectRequests :
        LET total == calculate_project_cost(r.duration_minutes, r.include_script,
                        r.include_storyboard, r.quality).total
        IN  total <= SignupCredits /\ 2 * total > SignupCredits}

\* POST /api/v1/projects: Depends(get_current_user) loads the caller's row
\* into the request's session
W_LoadUser(w, user_id, r) ==
    /\ w_calls[w].pc = "idle"
    /\ user_id \in DOMAIN m_users
    /\ w_calls' = [w_calls EXCEPT ![w] =
            [pc |-> "check", user_id |-> user_id,
             credits |-> m_users[user_id].credits, request |-> r]]
    /\ UNCHANGED <<m_users, m_projects, m_transactions, m_req, m_resp, m_tasks>>

\* POST /api/v1/projects: "Check credits" on the loaded row, then the commit
\* of crud.create_project, which expires the loaded row
W_CheckCredits(w) ==
    LET c == w_calls[w]
        cost == calculate_project_cost(c.request.duration_minutes,
                    c.request.include_script, c.request.include_storyboard,
                    c.request.quality)
    IN  /\ c.pc = "check"
        /\ IF InsufficientCredits(c.credits, cost.total)
           THEN /\ m_resp' = [op |-> "create_project", status |-> 402,
                              user_id |-> c.user_id, cost |-> cost.total,
                              worker |-> w]
                /\ w_calls' = [w_calls EXCEPT ![w] = NoRequest]
                /\ UNCHANGED m_projects
           ELSE /\ Len(m_projects) < MaxProjects
                /\ m_projects' = Append(m_projects,
                        create_project(c.user_id, c.request.duration_minutes,
                                       cost.total))
                /\ w_calls' = [w_calls EXCEPT ![w] =
                        [pc |-> "debit", user_id |-> c.user_id,
                         project_id |-> Len(m_projects) + 1,
                         cost |-> cost.total, request |-> c.request]]
                /\ UNCHANGED m_resp
        /\ UNCHANGED <<m_users, m_transactions, m_req, m_tasks>>

\* crud.use_credits: db.query(User)...first() reads the row again
W_DebitRead(w) ==
    LET c == w_calls[w]
    IN  /\ c.pc = "debit"
        /\ w_calls' = [w_calls EXCEPT ![w] =
                [pc |-> "write", user_id |-> c.user_id,
                 project_id |-> c.project_id, cost |-> c.cost,
                 credits |-> m_users[c.user_id].credits, request |-> c.request]]
        /\ UNCHANGED <<m_users, m_projects, m_transactions, m_req, m_resp, m_tasks>>

\* crud.use_credits: user.credits -= amount on the value read, the usage
\* row, and the commit (UPDATE users SET credits = <the computed value>);
\* then the background task and the response
W_DebitWrite(w) ==
    LET c == w_calls[w]
    IN  /\ c.pc = "write"
        /\ Len(m_transactions) < MaxTx
        /\ m_users' = [m_users EXCEPT ![c.user_id].credits = c.credits - c.cost]
        /\ m_transactions' = Append(m_transactions,
                [user_id |-> c.user_id, type |-> "usage", credits |-> -c.cost])
        /\ m_tasks' = Append(m_tasks, NewTask(c.project_id,
                c.request.include_script, c.request.include_storyboard))
        /\ m_resp' = [op |-> "create_project", status |-> 200,
                      user_id |-> c.user_id, cost |-> c.cost,
                      project_id |-> c.project_id, worker |-> w]
        /\ w_calls' = [w_calls EXCEPT ![w] = NoRequest]
        /\ UNCHANGED <<m_projects, m_req>>


(***************************************************************************)
(* film_platform/monetization_platform.py: registration, CreditManager and *)
(* POST /api/projects.                                                     *)
(*                                                                         *)
(* POST /api/projects runs without interruption through the commit of      *)
(* use_credits and the query of assign_project_to_node; it is suspended    *)
(* only while the scale_up that assign_project_to_node starts waits for a  *)
(* provider.  At most one scale_up is in flight at a time in the model.    *)
(***************************************************************************)
\* PlatformConfig.SUBSCRIPTION_TIERS: price_per_minute, max_duration_minutes
SUBSCRIPTION_TIERS ==
    [free |-> [price_per_minute |-> 500, max_duration_minutes |-> 10],
     starter |-> [price_per_minute |-> 300, max_duration_minutes |-> 60],
     pro |-> [price_per_minute |-> 250, max_duration_minutes |-> 180],
     enterprise |-> [price_per_minute |-> 200, max_duration_minutes |-> -1]]

\* User.credits: Column(Float, default=0.0)
DefaultCredits == 0

\* "Bonus for being referred": user.credits = 10
ReferredSignupCredits == 1000

\* the referrer's balance as it would be if the bonus were not added
CreditsUnchangedByReferral(credits) == credits

\* "Bonus credits for referral": referrer.credits += 25
CreditsAfterReferral(credits) == credits + 2500

NoCode == 0

LedgerNoResponse == [op |-> "none", status |-> 0, error |-> "none",
                     user_id |-> 0, cost |-> 0]

LedgerAtRest ==
    /\ l_users = <<>>
    /\ l_projects = <<>>
    /\ l_transactions = <<>>
    /\ l_resp = LedgerNoResponse

\* the users whose referral_code is the given code
Referrers(users, referral_code) ==
    {u \in DOMAIN users : users[u].referral_code = referral_code}

\* POST /api/register.  The new user's own referral code is a fresh random
\* token: the model uses the new row's id.
register(email, referral_code) ==
    LET existing == {u \in DOMAIN l_users : l_users[u].email = email}
        new_id == Len(l_users) + 1
        referrers == IF referral_code # NoCode
                     THEN Referrers(l_users, referral_code) ELSE {}
        user == [email |-> email,
                 credits |-> IF referrers # {} THEN ReferredSignupCredits
                             ELSE DefaultCredits,
                 subscription_tier |-> "free",
                 referral_code |-> new_id,
                 referred_by |-> referral_code]
    IN  /\ IF existing # {}
           THEN /\ l_resp' = [op |-> "register", status |-> 400,
                              error |-> "Email already registered",
                              user_id |-> 0, cost |-> 0]
                /\ UNCHANGED l_users
           ELSE /\ l_users' = Append(
                      [u \in DOMAIN l_users |->
                          IF u \in referrers
                          THEN [l_users[u] EXCEPT
                                  !.credits = CreditsAfterReferral(@)]
                          ELSE l_users[u]],
                      user)
                /\ l_resp' = [op |-> "register", status |-> 200, error |-> "none",
                              user_id |-> new_id, cost |-> 0]
        /\ UNCHANGED <<l_projects, l_transactions>>

\* CreditManager.apply_credits
apply_credits(user_id, credits, transaction_type) ==
    /\ IF user_id \notin DOMAIN l_users
       THEN /\ l_resp' = [op |-> "apply_credits", status |-> 500,
                          error |-> "User not found", user_id |-> user_id,
                          cost |-> 0]
            /\ UNCHANGED <<l_users, l_transactions>>
       ELSE /\ Len(l_transactions) < MaxTx
            /\ l_users' = [l_users EXCEPT ![user_id].credits = @ + credits]
            /\ l_transactions' = Append(l_transactions,
                    [user_id |-> user_id, type |-> transaction_type,
                     credits |-> credits])
            /\ l_resp' = [op |-> "apply_credits", status |-> 200,
                          error |-> "none", user_id |-> user_id, cost |-> 0]
    /\ UNCHANGED l_projects

\* CreditManager.use_credits: "Calculate cost based on tier"
UsageCost(subscription_tier, duration_minutes) ==
    duration_minutes * SUBSCRIPTION_TIERS[subscription_tier].price_per_minute

\* "Check duration limit"
ExceedsTierLimit(subscription_tier, duration_minutes) ==
    LET max_duration_minutes ==
            SUBSCRIPTION_TIERS[subscription_tier].max_duration_minutes
    IN  max_duration_minutes > 0 /\ duration_minutes > max_duration_minutes

\* the response of POST /api/projects for a request that changed nothing
Rejected(status, error, user_id, cost) ==
    /\ l_resp' = [op |-> "create_project", status |-> status, error |-> error,
                  user_id |-> user_id, cost |-> cost]
    /\ UNCHANGED <<l_users, l_projects, l_transactions, gvars>>

\* POST /api/projects for the user of a verified token, up to its first await
L_CreateProject(user_id, duration_minutes, include_script, include_storyboard, quality) ==
    LET user == l_users[user_id]
        costs == PricingEngine_calculate_project_cost(duration_minutes,
                    include_script, include_storyboard, quality, FALSE)
        cost == UsageCost(user.subscription_tier, duration_minutes)
        project_id == Len(l_projects) + 1
    IN  /\ user_id \in DOMAIN l_users
        /\ IF ExceedsTierLimit(user.subscription_tier, duration_minutes)
           THEN Rejected(403, "Duration exceeds tier limit", user_id, 0)
           ELSE IF costs.raises
           THEN Rejected(500, "ZeroDivisionError", user_id, 0)
           ELSE IF user.credits < costs.total
           THEN Rejected(402, "Insufficient credits", user_id, costs.total)
           ELSE IF user.credits < cost
           THEN \* use_credits raises ValueError: the session is discarded
                Rejected(500, "Insufficient credits", user_id, costs.total)
           ELSE /\ Len(l_projects) < MaxProjects
                /\ Len(l_transactions) < MaxTx
                \* the commit of use_credits: project row, balance, usage row
                /\ l_projects' = Append(l_projects,
                        [user_id |-> user_id,
                         duration_minutes |-> duration_minutes,
                         status |-> "queued", cost |-> costs.total])
                /\ l_users' = [l_users EXCEPT ![user_id].credits = @ - cost]
                /\ l_transactions' = Append(l_transactions,
                        [user_id |-> user_id, type |-> "usage",
                         credits |-> -cost])
                /\ assign_project_to_node(project_id, duration_minutes)
                \* the response is sent once assign_project_to_node returned
                /\ l_resp' = [op |-> "create_project",
                              status |-> IF g_up'.pc = "idle" THEN 200 ELSE 0,
                              error |-> "none", user_id |-> user_id,
                              cost |-> costs.total]

\* the scale_up started by POST /api/projects goes on; when it returns, the
\* request commits and responds
L_CreateProjectResumes ==
    /\ g_up.caller = "assign"
    /\ ScaleUpLaunch
    /\ l_resp' = [l_resp EXCEPT !.status = IF g_up'.pc = "idle" THEN 200 ELSE 0]
    /\ UNCHANGED <<l_users, l_projects, l_transactions>>

\* the project requests of the monetization application: one that costs
\* nothing, a one-minute film, one whose usage cost exceeds its price, and
\* one longer than the free tier allows
LedgerProjectRequests ==
    {[duration_minutes |-> d, include_script |-> FALSE,
      include_storyboard |-> FALSE, quality |-> "standard"] :
        d \in {0, 1, 3, SUBSCRIPTION_TIERS.free.max_duration_minutes + 1}}

\* the referral codes a registration may carry: none, the code of a
\* registered user, or a code that is nobody's
ReferralCodes(users) == {NoCode} \cup (1 .. Len(users) + 1)

L_Register ==
    /\ g_up.pc = "idle"
    /\ \E email \in 1 .. Min(Len(l_users) + 1, MaxUsers),
          referral_code \in ReferralCodes(l_users) : register(email, referral_code)
    /\ UNCHANGED gvars

L_ApplyCredits ==
    /\ g_up.pc = "idle"
    /\ \E user_id \in 1 .. MaxUsers, credits \in PackageCredits :
            apply_credits(user_id, credits, "purchase")
    /\ UNCHANGED gvars

L_CreateProjectRequest ==
    /\ g_up.pc = "idle"
    /\ \E user_id \in 1 .. MaxUsers, r \in LedgerProjectRequests :
            L_CreateProject(user_id, r.duration_minutes, r.include_script,
                            r.include_storyboard, r.quality)

(***************************************************************************)
(* film_platform/monetization_platform.py: AuthenticationService.          *)
(*                                                                         *)
(* A token is the payload that jwt.encode signed, with the key that signed *)
(* it.  jwt.decode checks the signature first and the "exp" claim second.  *)
(* The module imports PyJWT (import jwt), whose namespace has              *)
(* ExpiredSignatureError and no JWTError: when jwt.decode raises anything  *)
(* but ExpiredSignatureError, evaluating the second except clause raises   *)
(* AttributeError and the request ends as an internal server error.        *)
(***************************************************************************)
\* the number of tokens issued in a behaviour
MaxTokens == 2

\* the number of clock steps in a behaviour
MaxTicks == 5

\* PlatformConfig.JWT_EXPIRATION_HOURS
JWT_EXPIRATION_HOURS == 24

\* the clock advances by half the lifetime of a token
ClockStep == JWT_EXPIRATION_HOURS \div 2

NoToken == [user_id |-> 0, exp |-> 0, key |-> "none"]

AuthNoResponse == [op |-> "none", status |-> 0, user_id |-> 0, token |-> NoToken,
                   at |-> 0]

AuthAtRest ==
    /\ a_now = 0
    /\ a_tokens = {}
    /\ a_resp = AuthNoResponse

\* AuthenticationService.create_access_token
auth_create_access_token(user_id, now) ==
    [user_id |-> user_id, exp |-> now + JWT_EXPIRATION_HOURS, key |-> "JWT_SECRET"]

\* jwt.decode: the exception it raises, or "none" when it returns the payload
DecodeRaises(token, now) ==
    IF token.key # "JWT_SECRET" THEN "InvalidTokenError"
    ELSE IF token.exp <= now THEN "ExpiredSignatureError"
    ELSE "none"

\* AuthenticationService.verify_token: the status of the request, 200 when
\* the payload is returned
verify_token(token, now) ==
    LET raised == DecodeRaises(token, now)
    IN  IF raised = "none" THEN 200
        ELSE IF raised = "ExpiredSignatureError" THEN 401
        ELSE 500

\* POST /api/register: the response carries a token for the new user
A_Register(user_id) ==
    /\ Cardinality(a_tokens) < MaxTokens
    /\ a_tokens' = a_tokens \cup {auth_create_access_token(user_id, a_now)}
    /\ a_resp' = [op |-> "register", status |-> 200, user_id |-> user_id,
                  token |-> auth_create_access_token(user_id, a_now), at |-> a_now]
    /\ UNCHANGED a_now

\* a protected call (POST /api/projects) that carries a token: it acts for
\* the user of the payload
A_ProtectedCall(token) ==
    LET status == verify_token(token, a_now)
    IN  /\ a_resp' = [op |-> "call", status |-> status,
                      user_id |-> IF status = 200 THEN token.user_id ELSE 0,
                      token |-> token, at |-> a_now]
        /\ UNCHANGED <<a_now, a_tokens>>

\* a protected call without an Authorization header: HTTPBearer() answers
\* before the handler runs, 403 or 401 according to the FastAPI release
A_CallWithoutToken ==
    /\ \E status \in {401, 403} :
            a_resp' = [op |-> "call", status |-> status, user_id |-> 0,
                       token |-> NoToken, at |-> a_now]
    /\ UNCHANGED <<a_now, a_tokens>>

\* time passes
A_Tick ==
    /\ a_now < MaxTicks * ClockStep
    /\ a_now' = a_now + ClockStep
    /\ UNCHANGED <<a_tokens, a_resp>>

\* a bearer string that is not a JWT
MalformedToken == [user_id |-> 0, exp |-> 0, key |-> "malformed"]

\* the tokens a caller may present: those issued, the same payloads signed
\* with a key other than JWT_SECRET, and a string that is no token
PresentedTokens ==
    a_tokens \cup {[t EXCEPT !.key = "other"] : t \in a_tokens}
             \cup {MalformedToken}

(***************************************************************************)
(* runpod_api.py: the RunPod client.  main.py creates one RunPodClient at  *)
(* import time; every background task awaits generate_film on it, and      *)
(* every call works on the one pod RUNPOD_POD_ID.                          *)
(***************************************************************************)
\* scenes of a storyboard
MaxScenes == 2

\* a background task that has not called generate_film
FilmIdle ==
    [pc |-> "idle", todo |-> 0, scenes |-> <<>>, assembled |-> 0,
     started |-> FALSE, stopped |-> FALSE, result |-> "none"]

\* the pod is stopped and no task is in generate_film
FilmsAtRest ==
    /\ r_pod = "STOPPED"
    /\ r_films = [i \in 1 .. MaxProjects |-> FilmIdle]

\* _assemble_film: "scenes": [s["video_url"] for s in scenes if s["success"]]
AssemblyPayload(scenes) == SelectSeq(scenes, LAMBDA success : success)

\* generate_film, "Start pod": start_pod reads the pod's status; for a pod
\* that is STOPPED it posts the start and waits, otherwise it returns
\* already_running.  n is the number of scenes of the storyboard.
F_StartPod(i, n) ==
    /\ i \in DOMAIN m_tasks
    /\ m_tasks[i].pc = "film"
    /\ r_films[i].pc = "idle"
    /\ r_films' = [r_films EXCEPT ![i] =
          [FilmIdle EXCEPT !.todo = n,
                           !.started = (r_pod = "STOPPED"),
                           !.pc = IF r_pod = "STOPPED" THEN "starting" ELSE "scenes"]]
    /\ UNCHANGED r_pod

\* _wait_for_pod_ready returns, or raises TimeoutError after max_wait (or a
\* request of start_pod raises): the exception leaves generate_film
F_PodReady(i, ready) ==
    /\ r_films[i].pc = "starting"
    /\ IF ready
       THEN /\ r_pod' = "RUNNING"
            /\ r_films' = [r_films EXCEPT ![i].pc = "scenes"]
       ELSE /\ r_pod' \in {r_pod, "RUNNING"}
            /\ r_films' = [r_films EXCEPT ![i].pc = "raised",
                                          ![i].result = "raises"]

\* generate_video, "Ensure pod is running": the start_pod of a scene starts
\* the pod again when it finds it stopped; it is outside the try of
\* generate_video, so what it raises leaves gather and generate_film
F_SceneStart(i, ready) ==
    /\ r_films[i].pc = "scenes"
    /\ IF r_pod = "RUNNING"
       THEN /\ ready
            /\ r_films' = [r_films EXCEPT ![i].pc = "generating"]
            /\ UNCHANGED r_pod
       ELSE IF ready
            THEN /\ r_pod' = "RUNNING"
                 /\ r_films' = [r_films EXCEPT ![i].pc = "generating",
                                               ![i].started = TRUE]
            ELSE /\ r_films' = [r_films EXCEPT ![i].pc = "raised",
                                               ![i].started = TRUE,
                                               ![i].result = "raises"]
                 /\ UNCHANGED r_pod

\* generate_video, the POST /generate: 200 gives success True, anything else
\* (another status, a timeout, an exception) is caught and gives success
\* False; a pod that is stopped answers nothing.  The results of a batch are
\* collected in the order of the storyboard.
F_SceneEnd(i, ok) ==
    /\ r_films[i].pc = "generating"
    /\ r_films' = [r_films EXCEPT
          ![i].scenes = Append(@, ok /\ r_pod = "RUNNING"),
          ![i].todo = @ - 1,
          ![i].pc = IF r_films[i].todo = 1 THEN "assemble" ELSE "scenes"]
    /\ UNCHANGED r_pod

\* the answers to the POST /assemble: 200, another status, or none (the
\* 1800 s timeout or another exception, which _assemble_film does not catch)
AssemblyOutcomes == {"ok", "error", "raises"}

\* _assemble_film
F_Assemble(i, outcome) ==
    /\ r_films[i].pc = "assemble"
    /\ outcome = "ok" => r_pod = "RUNNING"
    /\ r_films' = [r_films EXCEPT
          ![i].assembled = Len(AssemblyPayload(r_films[i].scenes)),
          ![i].result = IF outcome = "ok" THEN "success" ELSE outcome,
          ![i].pc = IF outcome = "raises" THEN "raised" ELSE "stop"]
    /\ UNCHANGED r_pod

\* "Stop pod to save costs": stop_pod posts the stop of the pod, whoever
\* else uses it; a request that raises leaves generate_film
F_StopPod(i, returns) ==
    /\ r_films[i].pc = "stop"
    /\ IF returns
       THEN /\ r_pod' = "STOPPED"
            /\ r_films' = [r_films EXCEPT ![i].pc = "returned",
                                          ![i].stopped = TRUE]
       ELSE /\ r_films' = [r_films EXCEPT ![i].pc = "raised",
                                          ![i].result = "raises"]
            /\ UNCHANGED r_pod

\* control is back in generate_film_async: await runpod_client.generate_film
\* has returned film_result or raised
G_FilmEnds(i) ==
    /\ i \in DOMAIN m_tasks
    /\ r_films[i].pc \in {"returned", "raised"}
    /\ G_Film(i, r_films[i].result)
    /\ r_films' = [r_films EXCEPT ![i].pc = "left"]
    /\ UNCHANGED r_pod

(***************************************************************************)
(* skyreels-api/skyreels_api_server.py: the video backend, one process     *)
(* with its job queue in module globals.                                   *)
(***************************************************************************)
\* jobs accepted in a behaviour
MaxJobs == 3

\* VideoRequest.priority: 1=normal, 2=high, 3=urgent
Priorities == {1, 2, 3}

\* the global SKYREELS_MODEL = None: load_skyreels_model declares it global
\* and never assigns it (the assignment is a comment), whatever startup does
SKYREELS_MODEL == "None"

\* video_queue = [], processing_jobs = {}, completed_jobs = {}
VideoAtRest ==
    /\ v_queue = <<>>
    /\ v_processing = {}
    /\ v_completed = {}
    /\ v_tasks = 0
    /\ v_next = 0

\* POST /generate-video: the job gets a fresh video_id, is appended to
\* video_queue and a background task process_video_queue is added
generate_video(priority) ==
    /\ v_next < MaxJobs
    /\ v_queue' = Append(v_queue, [video_id |-> v_next + 1,
                                   priority |-> priority, status |-> "queued"])
    /\ v_tasks' = v_tasks + 1
    /\ v_next' = v_next + 1
    /\ UNCHANGED <<v_processing, v_completed>>

\* a background task process_video_queue runs up to its first await: it
\* returns at once "if not video_queue or SKYREELS_MODEL is None", otherwise
\* it pops the first job and moves it to processing_jobs
process_video_queue ==
    /\ v_tasks > 0
    /\ IF v_queue = <<>> \/ SKYREELS_MODEL = "None"
       THEN /\ v_tasks' = v_tasks - 1
            /\ UNCHANGED <<v_queue, v_processing, v_completed>>
       ELSE /\ v_queue' = Tail(v_queue)
            /\ v_processing' = v_processing
                   \cup {[Head(v_queue) EXCEPT !.status = "processing"]}
            /\ UNCHANGED <<v_tasks, v_completed>>
    /\ UNCHANGED v_next

\* the rest of process_video_queue, after the awaits: the job is marked
\* completed or failed and, in the finally, moved to completed_jobs.  No
\* behaviour gets here: no job ever enters processing_jobs.
process_video_queue_ends(job, ok) ==
    /\ job \in v_processing
    /\ v_processing' = v_processing \ {job}
    /\ v_completed' = v_completed
           \cup {[job EXCEPT !.status = IF ok THEN "completed" ELSE "failed"]}
    /\ v_tasks' = v_tasks - 1
    /\ UNCHANGED <<v_queue, v_next>>

(***************************************************************************)
(* Specification of the pricing calculators: Init draws a request, the     *)
(* actions evaluate both calculators on it.                                *)
(***************************************************************************)
Durations == (0 .. MaxDuration) \cup {60}

PricingRequests ==
    [duration_minutes : Durations,
     include_script : BOOLEAN,
     include_storyboard : BOOLEAN,
     quality : Qualities,
     rush : BOOLEAN]


(***************************************************************************)
(* Specifications: one per part of the system, the other parts at rest.    *)
(***************************************************************************)
InitGpu ==
    GpuAtRest /\ PricingAtRest /\ MainAtRest /\ LedgerAtRest /\ AuthAtRest
        /\ WorkersAtRest /\ FilmsAtRest /\ VideoAtRest

NextGpu ==
    \/ ScaleUpRequest /\ UNCHANGED <<pvars, mvars, lvars, avars, wvars, fvars, vvars>>
    \/ ScaleUpLaunch /\ UNCHANGED <<pvars, mvars, lvars, avars, wvars, fvars, vvars>>
    \/ ScaleDownRequest /\ UNCHANGED <<pvars, mvars, lvars, avars, wvars, fvars, vvars>>
    \/ ScaleDownTerminate /\ UNCHANGED <<pvars, mvars, lvars, avars, wvars, fvars, vvars>>
    \/ AssignRequest /\ UNCHANGED <<pvars, mvars, lvars, avars, wvars, fvars, vvars>>

SpecGpu == InitGpu /\ [][NextGpu]_vars

\* a provider answers the launch request a scale_up waits for
LaunchReturns == ScaleUpLaunch /\ UNCHANGED <<pvars, mvars, lvars, avars, wvars, fvars, vvars>>

\* a provider answers the terminate request a scale_down waits for
TerminateAnswered == ScaleDownTerminate /\ UNCHANGED <<pvars, mvars, lvars, avars, wvars, fvars, vvars>>

\* the orchestrator when every provider call returns and the event loop
\* resumes the call that awaited it; requests arrive or not
\* assignments that are retried, with providers that launch what is asked
InitRetry ==
    GpuAtRest /\ PricingAtRest /\ MainAtRest /\ LedgerAtRest /\ AuthAtRest
        /\ WorkersAtRest /\ FilmsAtRest /\ VideoAtRest

LaunchSucceedsStep == LaunchSucceeds /\ UNCHANGED <<pvars, mvars, lvars, avars, wvars, fvars, vvars>>

RetryStep(w) == R_Retry(w) /\ UNCHANGED <<pvars, mvars, lvars, avars, fvars, vvars>>

NextRetry ==
    \/ ScaleUpRequest /\ UNCHANGED <<pvars, mvars, lvars, avars, wvars, fvars, vvars>>
    \/ LaunchSucceeds /\ UNCHANGED <<pvars, mvars, lvars, avars, wvars, fvars, vvars>>
    \/ (\E w \in Workers, project_id \in 1 .. MaxProjects,
            duration_minutes \in TierDurations :
            R_FirstAttempt(w, project_id, duration_minutes))
       /\ UNCHANGED <<pvars, mvars, lvars, avars, fvars, vvars>>
    \/ (\E w \in Workers : R_Retry(w)) /\ UNCHANGED <<pvars, mvars, lvars, avars, fvars, vvars>>

\* every launch request is answered and every caller keeps retrying
SpecRetry ==
    /\ InitRetry
    /\ [][NextRetry]_vars
    /\ WF_vars(LaunchSucceedsStep)
    /\ \A w \in Workers : WF_vars(RetryStep(w))

SpecGpuFair ==
    /\ InitGpu
    /\ [][NextGpu]_vars
    /\ WF_vars(LaunchReturns)
    /\ WF_vars(TerminateAnswered)

\* assignments from several server processes on one gpu_nodes table
InitAssign ==
    GpuAtRest /\ PricingAtRest /\ MainAtRest /\ LedgerAtRest /\ AuthAtRest
        /\ WorkersAtRest /\ FilmsAtRest /\ VideoAtRest

NextAssign ==
    \/ ScaleUpRequest /\ UNCHANGED <<pvars, mvars, lvars, avars, wvars, fvars, vvars>>
    \/ ScaleUpLaunch /\ UNCHANGED <<pvars, mvars, lvars, avars, wvars, fvars, vvars>>
    \/ (\E w \in Workers, project_id \in 1 .. MaxProjects,
            duration_minutes \in TierDurations :
            W_AssignQuery(w, project_id, duration_minutes))
       /\ UNCHANGED <<pvars, mvars, lvars, avars, fvars, vvars>>
    \/ (\E w \in Workers : W_AssignCommit(w)) /\ UNCHANGED <<pvars, mvars, lvars, avars, fvars, vvars>>

SpecAssign == InitAssign /\ [][NextAssign]_vars

InitMain ==
    MainAtRest /\ PricingAtRest /\ GpuAtRest /\ LedgerAtRest /\ AuthAtRest
        /\ WorkersAtRest /\ FilmsAtRest /\ VideoAtRest

NextMain ==
    \/ (\E email \in Emails : M_Register(email)) /\ UNCHANGED <<pvars, gvars, lvars, avars, wvars, fvars, vvars>>
    \/ (\E user_id \in 1 .. MaxUsers, amount \in PackageCredits :
            M_AddCredits(user_id, amount)) /\ UNCHANGED <<pvars, gvars, lvars, avars, wvars, fvars, vvars>>
    \/ (\E user_id \in 1 .. MaxUsers, r \in ProjectRequests :
            M_CreateProject(user_id, r.duration_minutes, r.include_script,
                            r.include_storyboard, r.quality))
       /\ UNCHANGED <<pvars, gvars, lvars, avars, wvars, fvars, vvars>>
    \/ M_DeductCredits /\ UNCHANGED <<pvars, gvars, lvars, avars, wvars, fvars, vvars>>
    \/ M_DeductFails /\ UNCHANGED <<pvars, gvars, lvars, avars, wvars, fvars, vvars>>

SpecMain == InitMain /\ [][NextMain]_vars

\* the main application with its two read endpoints
InitView ==
    MainAtRest /\ PricingAtRest /\ GpuAtRest /\ LedgerAtRest /\ AuthAtRest
        /\ WorkersAtRest /\ FilmsAtRest /\ VideoAtRest

NextView ==
    \/ (\E email \in Emails : M_Register(email)) /\ UNCHANGED <<pvars, gvars, lvars, avars, wvars, fvars, vvars>>
    \/ (\E user_id \in 1 .. MaxUsers, r \in ProjectRequests :
            M_CreateProject(user_id, r.duration_minutes, r.include_script,
                            r.include_storyboard, r.quality))
       /\ UNCHANGED <<pvars, gvars, lvars, avars, wvars, fvars, vvars>>
    \/ M_DeductCredits /\ UNCHANGED <<pvars, gvars, lvars, avars, wvars, fvars, vvars>>
    \/ (\E user_id \in 1 .. MaxUsers, project_id \in ProjectIds :
            M_GetProject(user_id, project_id))
       /\ UNCHANGED <<pvars, gvars, lvars, avars, wvars, fvars, vvars>>
    \/ (\E user_id \in 1 .. MaxUsers : M_ListProjects(user_id))
       /\ UNCHANGED <<pvars, gvars, lvars, avars, wvars, fvars, vvars>>

SpecView == InitView /\ [][NextView]_vars

\* the generation does not depend on who owns a project: one user
GenUsers == {1}

\* the main application with the background generation of its projects
InitGen ==
    MainAtRest /\ PricingAtRest /\ GpuAtRest /\ LedgerAtRest /\ AuthAtRest
        /\ WorkersAtRest /\ FilmsAtRest /\ VideoAtRest

NextGen ==
    \/ (\E email \in GenUsers : M_Register(email)) /\ UNCHANGED <<pvars, gvars, lvars, avars, wvars, fvars, vvars>>
    \/ (\E user_id \in GenUsers, amount \in PackageCredits :
            M_AddCredits(user_id, amount)) /\ UNCHANGED <<pvars, gvars, lvars, avars, wvars, fvars, vvars>>
    \/ (\E user_id \in GenUsers, r \in GenRequests :
            M_CreateProject(user_id, r.duration_minutes, r.include_script,
                            r.include_storyboard, r.quality))
       /\ UNCHANGED <<pvars, gvars, lvars, avars, wvars, fvars, vvars>>
    \/ M_DeductCredits /\ UNCHANGED <<pvars, gvars, lvars, avars, wvars, fvars, vvars>>
    \/ M_DeductFails /\ UNCHANGED <<pvars, gvars, lvars, avars, wvars, fvars, vvars>>
    \/ (\E i \in DOMAIN m_tasks : G_Start(i)) /\ UNCHANGED <<pvars, gvars, lvars, avars, wvars, fvars, vvars>>
    \/ (\E i \in DOMAIN m_tasks, returns \in BOOLEAN : G_Script(i, returns))
       /\ UNCHANGED <<pvars, gvars, lvars, avars, wvars, fvars, vvars>>
    \/ (\E i \in DOMAIN m_tasks : G_IfStoryboard(i))
       /\ UNCHANGED <<pvars, gvars, lvars, avars, wvars, fvars, vvars>>
    \/ (\E i \in DOMAIN m_tasks, returns \in BOOLEAN : G_Storyboard(i, returns))
       /\ UNCHANGED <<pvars, gvars, lvars, avars, wvars, fvars, vvars>>
    \/ (\E i \in DOMAIN m_tasks, film_result \in FilmResults : G_Film(i, film_result))
       /\ UNCHANGED <<pvars, gvars, lvars, avars, wvars, fvars, vvars>>
    \/ (\E i \in DOMAIN m_tasks, returns \in BOOLEAN : G_Upload(i, returns))
       /\ UNCHANGED <<pvars, gvars, lvars, avars, wvars, fvars, vvars>>

SpecGen == InitGen /\ [][NextGen]_vars

\* a step of the background task i: the event loop resumes the coroutine, or
\* the call it awaits returns, raises or times out
GenStep(i) ==
    /\ i \in DOMAIN m_tasks
    /\ \/ G_Start(i)
       \/ \E returns \in BOOLEAN : G_Script(i, returns)
       \/ G_IfStoryboard(i)
       \/ \E returns \in BOOLEAN : G_Storyboard(i, returns)
       \/ \E film_result \in FilmResults : G_Film(i, film_result)
       \/ \E returns \in BOOLEAN : G_Upload(i, returns)
    /\ UNCHANGED <<pvars, gvars, lvars, avars, wvars, fvars, vvars>>

\* POST /api/v1/projects ends after crud.create_project, one way or the other
RequestEnds ==
    (M_DeductCredits \/ M_DeductFails)
    /\ UNCHANGED <<pvars, gvars, lvars, avars, wvars, fvars, vvars>>

\* the generation when every started task keeps running and every backend
\* call ends: Starlette runs a background task once the response is sent,
\* the event loop resumes a coroutine whose await has ended, and a request
\* does not stay between its two commits
SpecGenFair ==
    /\ InitGen
    /\ [][NextGen]_vars
    /\ \A i \in 1 .. MaxProjects : WF_vars(GenStep(i))
    /\ WF_vars(RequestEnds)

\* the background generation with the calls of the RunPod client in steps.
\* It starts where two projects generate side by side: a user has registered,
\* bought the package and created two projects with script and storyboard,
\* and both POST /api/v1/projects have answered.
FilmCost == calculate_project_cost(1, TRUE, TRUE, "standard").total

FilmPackage == CHOOSE credits \in PackageCredits : TRUE

InitFilm ==
    /\ m_users = <<[create_user(1) EXCEPT
                      !.credits = SignupCredits + FilmPackage - 2 * FilmCost]>>
    /\ m_transactions =
          <<[user_id |-> 1, type |-> "purchase", credits |-> FilmPackage],
            [user_id |-> 1, type |-> "usage", credits |-> -FilmCost],
            [user_id |-> 1, type |-> "usage", credits |-> -FilmCost]>>
    /\ m_projects = <<create_project(1, 1, FilmCost), create_project(1, 1, FilmCost)>>
    /\ m_tasks = <<NewTask(1, TRUE, TRUE), NewTask(2, TRUE, TRUE)>>
    /\ m_req = NoRequest
    /\ m_resp = [op |-> "create_project", status |-> 200, user_id |-> 1,
                 cost |-> FilmCost, project_id |-> 2]
    /\ PricingAtRest /\ GpuAtRest /\ LedgerAtRest /\ AuthAtRest
    /\ WorkersAtRest /\ FilmsAtRest /\ VideoAtRest

NextFilm ==
    \/ (\E i \in DOMAIN m_tasks : G_Start(i))
       /\ UNCHANGED <<pvars, gvars, lvars, avars, wvars, fvars, vvars>>
    \/ (\E i \in DOMAIN m_tasks : G_Script(i, TRUE))
       /\ UNCHANGED <<pvars, gvars, lvars, avars, wvars, fvars, vvars>>
    \/ (\E i \in DOMAIN m_tasks : G_IfStoryboard(i))
       /\ UNCHANGED <<pvars, gvars, lvars, avars, wvars, fvars, vvars>>
    \/ (\E i \in DOMAIN m_tasks : G_Storyboard(i, TRUE))
       /\ UNCHANGED <<pvars, gvars, lvars, avars, wvars, fvars, vvars>>
    \/ (\E i \in DOMAIN m_tasks, n \in 1 .. MaxScenes : F_StartPod(i, n))
       /\ UNCHANGED <<pvars, gvars, mvars, lvars, avars, wvars, vvars>>
    \/ (\E i \in DOMAIN m_tasks, ready \in BOOLEAN : F_PodReady(i, ready))
       /\ UNCHANGED <<pvars, gvars, mvars, lvars, avars, wvars, vvars>>
    \/ (\E i \in DOMAIN m_tasks, ready \in BOOLEAN : F_SceneStart(i, ready))
       /\ UNCHANGED <<pvars, gvars, mvars, lvars, avars, wvars, vvars>>
    \/ (\E i \in DOMAIN m_tasks, ok \in BOOLEAN : F_SceneEnd(i, ok))
       /\ UNCHANGED <<pvars, gvars, mvars, lvars, avars, wvars, vvars>>
    \/ (\E i \in DOMAIN m_tasks, outcome \in AssemblyOutcomes : F_Assemble(i, outcome))
       /\ UNCHANGED <<pvars, gvars, mvars, lvars, avars, wvars, vvars>>
    \/ (\E i \in DOMAIN m_tasks, returns \in BOOLEAN : F_StopPod(i, returns))
       /\ UNCHANGED <<pvars, gvars, mvars, lvars, avars, wvars, vvars>>
    \/ (\E i \in DOMAIN m_tasks : G_FilmEnds(i))
       /\ UNCHANGED <<pvars, gvars, lvars, avars, wvars, vvars>>
    \/ (\E i \in DOMAIN m_tasks, returns \in BOOLEAN : G_Upload(i, returns))
       /\ UNCHANGED <<pvars, gvars, lvars, avars, wvars, fvars, vvars>>

SpecFilm == InitFilm /\ [][NextFilm]_vars

\* the video backend
InitVideo ==
    MainAtRest /\ PricingAtRest /\ GpuAtRest /\ LedgerAtRest /\ AuthAtRest
        /\ WorkersAtRest /\ FilmsAtRest /\ VideoAtRest

NextVideo ==
    \/ (\E priority \in Priorities : generate_video(priority))
       /\ UNCHANGED <<pvars, gvars, mvars, lvars, avars, wvars, fvars>>
    \/ process_video_queue
       /\ UNCHANGED <<pvars, gvars, mvars, lvars, avars, wvars, fvars>>

\* Starlette runs every background task it was given once the response is
\* sent
BackgroundTaskRuns ==
    process_video_queue /\ UNCHANGED <<pvars, gvars, mvars, lvars, avars, wvars, fvars>>

SpecVideoFair ==
    /\ InitVideo
    /\ [][NextVideo]_vars
    /\ WF_vars(BackgroundTaskRuns)

\* registration requests from several requests at a time
InitSignup ==
    MainAtRest /\ PricingAtRest /\ GpuAtRest /\ LedgerAtRest /\ AuthAtRest
        /\ WorkersAtRest /\ FilmsAtRest /\ VideoAtRest

NextSignup ==
    \/ (\E w \in Workers, email \in 1 .. MaxUsers : W_RegisterCheck(w, email))
       /\ UNCHANGED <<pvars, gvars, lvars, avars, fvars, vvars>>
    \/ (\E w \in Workers : W_RegisterInsert(w)) /\ UNCHANGED <<pvars, gvars, lvars, avars, fvars, vvars>>

SpecSignup == InitSignup /\ [][NextSignup]_vars

\* project creation from several requests at a time
InitWorkers ==
    MainAtRest /\ PricingAtRest /\ GpuAtRest /\ LedgerAtRest /\ AuthAtRest
        /\ WorkersAtRest /\ FilmsAtRest /\ VideoAtRest

NextWorkers ==
    \/ (\E email \in Emails : M_Register(email)) /\ UNCHANGED <<pvars, gvars, lvars, avars, wvars, fvars, vvars>>
    \/ (\E w \in Workers, user_id \in 1 .. MaxUsers, r \in WorkerRequests :
            W_LoadUser(w, user_id, r))
       /\ UNCHANGED <<pvars, gvars, lvars, avars, fvars, vvars>>
    \/ (\E w \in Workers : W_CheckCredits(w)) /\ UNCHANGED <<pvars, gvars, lvars, avars, fvars, vvars>>
    \/ (\E w \in Workers : W_DebitRead(w)) /\ UNCHANGED <<pvars, gvars, lvars, avars, fvars, vvars>>
    \/ (\E w \in Workers : W_DebitWrite(w)) /\ UNCHANGED <<pvars, gvars, lvars, avars, fvars, vvars>>

SpecWorkers == InitWorkers /\ [][NextWorkers]_vars

InitPricing ==
    /\ p_req \in PricingRequests
    /\ p_pc = "input"
    /\ p_cost = NoCost
    /\ p_engine = NoCost
    /\ GpuAtRest
    /\ MainAtRest
    /\ LedgerAtRest
    /\ AuthAtRest
    /\ WorkersAtRest /\ FilmsAtRest /\ VideoAtRest

\* both calculators are evaluated on the request
PriceRequest ==
    /\ p_pc = "input"
    /\ p_cost' = calculate_project_cost(p_req.duration_minutes, p_req.include_script,
                                        p_req.include_storyboard, p_req.quality)
    /\ p_engine' = PricingEngine_calculate_project_cost(
                        p_req.duration_minutes, p_req.include_script,
                        p_req.include_storyboard, p_req.quality, p_req.rush)
    /\ p_pc' = "done"
    /\ UNCHANGED p_req

\* the next request arrives
NextRequest ==
    /\ p_pc = "done"
    /\ p_req' \in PricingRequests
    /\ p_pc' = "input"
    /\ p_cost' = NoCost
    /\ p_engine' = NoCost

NextPricing ==
    \/ PriceRequest /\ UNCHANGED <<gvars, mvars, lvars, avars, wvars, fvars, vvars>>
    \/ NextRequest /\ UNCHANGED <<gvars, mvars, lvars, avars, wvars, fvars, vvars>>

SpecPricing == InitPricing /\ [][NextPricing]_vars

InitMon ==
    LedgerAtRest /\ GpuAtRest /\ PricingAtRest /\ MainAtRest /\ AuthAtRest
        /\ WorkersAtRest /\ FilmsAtRest /\ VideoAtRest

NextMon ==
    \/ L_Register /\ UNCHANGED <<pvars, mvars, avars, wvars, fvars, vvars>>
    \/ L_ApplyCredits /\ UNCHANGED <<pvars, mvars, avars, wvars, fvars, vvars>>
    \/ L_CreateProjectRequest /\ UNCHANGED <<pvars, mvars, avars, wvars, fvars, vvars>>
    \/ L_CreateProjectResumes /\ UNCHANGED <<pvars, mvars, avars, wvars, fvars, vvars>>

SpecMon == InitMon /\ [][NextMon]_vars

InitAuth ==
    AuthAtRest /\ LedgerAtRest /\ GpuAtRest /\ PricingAtRest /\ MainAtRest
        /\ WorkersAtRest /\ FilmsAtRest /\ VideoAtRest

NextAuth ==
    \/ (\E user_id \in 1 .. MaxUsers : A_Register(user_id))
       /\ UNCHANGED <<pvars, gvars, mvars, lvars, wvars, fvars, vvars>>
    \/ (\E token \in PresentedTokens : A_ProtectedCall(token))
       /\ UNCHANGED <<pvars, gvars, mvars, lvars, wvars, fvars, vvars>>
    \/ A_CallWithoutToken /\ UNCHANGED <<pvars, gvars, mvars, lvars, wvars, fvars, vvars>>
    \/ A_Tick /\ UNCHANGED <<pvars, gvars, mvars, lvars, wvars, fvars, vvars>>

SpecAuth == InitAuth /\ [][NextAuth]_vars

(***************************************************************************)
(* Claims about the orchestrator (checked under SpecGpu).                  *)
(***************************************************************************)

\* C3: in every reachable state, under any interleaving of scale_down, scale_up
\* and assign_project_to_node, no GPU node whose current_project_id is set has
\* been marked terminated by scale_down.
C3_NoAssignedNodeTerminated ==
    \A i \in DOMAIN g_nodes :
        g_nodes[i].current_project_id # None => g_nodes[i].status # "terminated"

\* the steps of an assign_project_to_node call for a project of this duration
\* made while no available node has a GPU class of the duration's tier
C4_NoMatch(duration_minutes) ==
    LET classes == IF duration_minutes <= 30 THEN {"rtx4090", "a100_40gb"}
                   ELSE IF duration_minutes <= 90 THEN {"a100_40gb", "a100_80gb"}
                   ELSE {"a100_80gb", "h100"}
    IN  \A i \in DOMAIN g_nodes :
            ~(g_nodes[i].status = "available" /\ g_nodes[i].gpu_type \in classes)

C4_ExistingNodesKept ==
    \A i \in DOMAIN g_nodes :
        /\ i \in DOMAIN g_nodes'
        /\ g_nodes'[i].status = g_nodes[i].status
        /\ g_nodes'[i].current_project_id = g_nodes[i].current_project_id

C4_ReturnsNoneAfterOneScaleUp(project_id) ==
    g_up'.pc = "idle" =>
        g_ret' = [op |-> "assign", project_id |-> project_id, node_id |-> None,
                  scale_up_calls |-> <<1>>]

\* C4: when assign_project_to_node finds no available node whose GPU class
\* matches the project's duration tier, it calls scale_up(1) exactly once,
\* returns None (no assignment yet) without raising, and changes no existing
\* node's status or current_project_id.
C4_NoMatchScalesUpOnceReturnsNone ==
    [][ /\ \A project_id \in 1 .. MaxProjects, duration_minutes \in TierDurations :
             (C4_NoMatch(duration_minutes)
                /\ assign_project_to_node(project_id, duration_minutes))
             => /\ C4_ExistingNodesKept
                /\ C4_ReturnsNoneAfterOneScaleUp(project_id)
                /\ g_up'.pc = "launch" =>
                      (g_up'.caller = "assign" /\ g_up'.required_capacity = 1)
        /\ (g_up.caller = "assign" /\ ScaleUpLaunch)
             => /\ C4_ExistingNodesKept
                /\ C4_ReturnsNoneAfterOneScaleUp(g_up.project_id)
      ]_vars

\* an assignment that found no matching node returned None after its scale_up
\* added a node, while another node was serving a project
C4_Witness ==
    /\ g_ret.op = "assign"
    /\ g_ret.node_id = None
    /\ g_ret.scale_up_calls = <<1>>
    /\ \E i \in DOMAIN g_nodes : g_nodes[i].status = "busy"
    /\ \E i \in DOMAIN g_nodes : g_nodes[i].status = "available"

(***************************************************************************)
(* Claims about the main application (checked under SpecMain).             *)
(***************************************************************************)

C8_ProjectAndDebitAtomic ==
    m_req.pc = "idle" =>
        \A u \in DOMAIN m_users :
            Cardinality({k \in DOMAIN m_projects : m_projects[k].user_id = u})
              = Cardinality({t \in DOMAIN m_transactions :
                                /\ m_transactions[t].user_id = u
                                /\ m_transactions[t].type = "usage"})

(***************************************************************************)
(* Claims about the pricing calculators (checked under SpecPricing).       *)
(***************************************************************************)

\* C5: for every duration and every combination of include_script,
\* include_storyboard, quality and rush the calculators return a breakdown with
\* video = duration x 3.00, script = duration x 1.00 if requested else 0,
\* storyboard = 10.00 if requested else 0, subtotal = video + script +
\* storyboard and total = subtotal + quality_fee + rush_fee; a 60-minute
\* standard project with script and storyboard costs 250 in total.
C5_BreakdownForEveryInput ==
    p_pc = "done" =>
        LET d == p_req.duration_minutes
            claimedScript == IF p_req.include_script THEN d * 100 ELSE 0
            claimedStoryboard == IF p_req.include_storyboard THEN 1000 ELSE 0
        IN  /\ ~p_engine.raises
            /\ p_engine.video_generation = d * 300
            /\ p_engine.script_writing = claimedScript
            /\ p_engine.storyboarding = claimedStoryboard
            /\ p_engine.subtotal = p_engine.video_generation
                                   + p_engine.script_writing + p_engine.storyboarding
            /\ p_engine.total = p_engine.subtotal + p_engine.quality_fee
                                + p_engine.rush_fee
            /\ p_cost.video = d * 300
            /\ p_cost.script = claimedScript
            /\ p_cost.storyboard = claimedStoryboard
            /\ p_cost.subtotal = p_cost.video + p_cost.script + p_cost.storyboard
            /\ p_cost.total = p_cost.subtotal
                 + (p_cost.subtotal * (p_cost.quality_multiplier - 100)) \div 100
            /\ (d = 60 /\ p_req.include_script /\ p_req.include_storyboard
                  /\ p_req.quality = "standard" /\ ~p_req.rush)
               => (p_engine.total = 25000 /\ p_cost.total = 25000)

\* C6: for every quality value the quality fee is subtotal x (multiplier - 1)
\* with multiplier 1.0 for standard, 1.5 for premium, 2.0 for ultra and 1.0 for
\* an unknown quality, and pricing.calculate_project_cost and
\* PricingEngine.calculate_project_cost without rush return the same total.
C6_QualityFeeAndSameTotal ==
    (p_pc = "done" /\ ~p_engine.raises) =>
        LET claimedMultiplier ==
                CASE p_req.quality = "standard" -> 100
                  [] p_req.quality = "premium" -> 150
                  [] p_req.quality = "ultra" -> 200
                  [] OTHER -> 100
        IN  /\ p_engine.quality_fee
                 = (p_engine.subtotal * (claimedMultiplier - 100)) \div 100
            /\ p_cost.total - p_cost.subtotal
                 = (p_cost.subtotal * (claimedMultiplier - 100)) \div 100
            /\ ~p_req.rush => p_engine.total = p_cost.total


(***************************************************************************)
(* Claims about the monetization application (checked under SpecMon).      *)
(***************************************************************************)
RECURSIVE SumOfDeltas(_, _)
\* the sum of the credit deltas of the rows of one user
SumOfDeltas(rows, user_id) ==
    IF rows = <<>> THEN 0
    ELSE (IF Head(rows).user_id = user_id THEN Head(rows).credits ELSE 0)
         + SumOfDeltas(Tail(rows), user_id)

\* C1: after any sequence of registrations, credit applications and usage
\* debits, for every user of either application the sum of the credit
\* deltas of the user's Transaction rows equals the user's balance.
C1_LedgerMatchesBalance ==
    /\ \A u \in DOMAIN l_users :
            SumOfDeltas(l_transactions, u) = l_users[u].credits
    /\ \A u \in DOMAIN m_users :
            SumOfDeltas(m_transactions, u) = m_users[u].credits

\* C7: whenever POST /api/projects stores a project, the user's balance
\* decreases by exactly the total cost of the pricing calculator (the cost
\* in the response and on the Project row) and the usage Transaction
\* appended for it has the negation of that cost as its credit delta.
C7_DebitEqualsCost ==
    [][Len(l_projects') = Len(l_projects) + 1 =>
        LET project == l_projects'[Len(l_projects')]
            usage == l_transactions'[Len(l_transactions')]
        IN  /\ l_resp'.cost = project.cost
            /\ l_users[project.user_id].credits
                  - l_users'[project.user_id].credits = project.cost
            /\ Len(l_transactions') = Len(l_transactions) + 1
            /\ usage.type = "usage"
            /\ usage.user_id = project.user_id
            /\ usage.credits = -project.cost]_vars

\* C9: when a user registers with the referral code of an existing user,
\* that user's balance increases by 25 and the new user's starting balance
\* is the referred-signup bonus of 10, not the default balance of 0; when
\* the code matches no user the new user starts with the default balance;
\* in both cases no other balance changes.
C9_ReferralBonuses ==
    [][Len(l_users') = Len(l_users) + 1 =>
        LET new_user == l_users'[Len(l_users')]
            owners == {u \in DOMAIN l_users :
                          /\ new_user.referred_by # 0
                          /\ l_users[u].referral_code = new_user.referred_by}
        IN  /\ \A u \in owners : l_users'[u].credits = l_users[u].credits + 2500
            /\ \A u \in DOMAIN l_users \ owners :
                    l_users'[u].credits = l_users[u].credits
            /\ owners # {} => new_user.credits = 1000 /\ new_user.credits # 0
            /\ owners = {} => new_user.credits = 0]_vars

\* a user has just registered with the referral code of the first user, who
\* had registered without one
C9_Witness ==
    /\ Len(l_users) = 2
    /\ l_resp.op = "register" /\ l_resp.status = 200 /\ l_resp.user_id = 2
    /\ l_users[2].referred_by = l_users[1].referral_code
    /\ l_users[1].credits = 2500
    /\ l_users[2].credits = 1000


(***************************************************************************)
(* Claims about the bearer tokens (checked under SpecAuth).                *)
(***************************************************************************)
\* C10: a token returned by a registration authenticates protected calls as
\* that same user until its expiry and is rejected with 401 at any later
\* time; a protected call with no token or an invalid token is rejected
\* with 401.
C10_TokenAuthenticatesUntilExpiry ==
    a_resp.op = "call" =>
        IF a_resp.token \in a_tokens
        THEN /\ a_resp.at < a_resp.token.exp =>
                    a_resp.status = 200 /\ a_resp.user_id = a_resp.token.user_id
             /\ a_resp.at > a_resp.token.exp => a_resp.status = 401
        ELSE a_resp.status = 401

\* C11: a user never observes another user's project.  GET
\* /api/v1/projects/{id} answers 404 for an id that is not stored and 403 for
\* a project of another user, and every project a response carries, of the
\* status endpoint or of the list, belongs to the caller; the list carries
\* all of the caller's projects and nothing else.
C11_OnlyOwnProjectsObserved ==
    [][(m_resp' # m_resp /\ m_resp'.op \in {"get_project", "list_projects"})
        => /\ \A k \in m_resp'.projects :
                k \in DOMAIN m_projects /\ m_projects[k].user_id = m_resp'.user_id
           /\ m_resp'.op = "get_project" =>
                /\ (m_resp'.status = 404) = (m_resp'.project_id \notin DOMAIN m_projects)
                /\ (m_resp'.status = 403) =
                      (/\ m_resp'.project_id \in DOMAIN m_projects
                       /\ m_projects[m_resp'.project_id].user_id # m_resp'.user_id)
                /\ m_resp'.status # 200 => m_resp'.projects = {}
           /\ m_resp'.op = "list_projects" =>
                m_resp'.projects = {k \in DOMAIN m_projects :
                                      m_projects[k].user_id = m_resp'.user_id}
      ]_vars

\* a user lists their projects while another user has a project too
C11_Witness ==
    /\ m_resp.op = "list_projects"
    /\ m_resp.projects # {}
    /\ \E k \in DOMAIN m_projects : m_projects[k].user_id # m_resp.user_id


StatusChain ==
    {<<"queued", "generating">>, <<"generating", "script_complete">>,
     <<"script_complete", "storyboard_complete">>,
     <<"storyboard_complete", "complete">>}

NonTerminal == {"queued", "generating", "script_complete", "storyboard_complete"}

\* C13: a project's status changes only along queued -> generating ->
\* script_complete -> storyboard_complete -> complete, or to failed from a
\* non-terminal status; a complete or failed project never changes status.
C13_StatusFollowsLifecycle ==
    [][\A k \in DOMAIN m_projects :
          m_projects'[k].status # m_projects[k].status
          => \/ <<m_projects[k].status, m_projects'[k].status>> \in StatusChain
             \/ /\ m_projects[k].status \in NonTerminal
                /\ m_projects'[k].status = "failed"
      ]_vars

\* a project went through every stage
C13_Witness ==
    \E k \in DOMAIN m_projects :
        /\ m_projects[k].status = "complete"
        /\ \E i \in DOMAIN m_tasks :
              m_tasks[i].project_id = k /\ m_tasks[i].pc = "done"


\* C14: applying credits for a user id that does not resolve to a user fails
\* with a user-not-found error and leaves every balance and the transactions
\* table unchanged; no ledger operation silently succeeds for an unknown
\* user.  Stated for crud.add_credits of the main application.
C14_UnknownUserFails ==
    [][(/\ m_resp' # m_resp
        /\ m_resp'.op = "add_credits"
        /\ m_resp'.user_id \notin DOMAIN m_users)
        => /\ m_resp'.error = "User not found"
           /\ m_users' = m_users
           /\ m_transactions' = m_transactions
      ]_vars


\* C15: two concurrent debits against the same user never both act on the
\* same stale balance: the balance never becomes negative (two requests do
\* not both pass the credit check when the balance covers one of them) and
\* it equals the signup credits minus every debit applied.
C15_NoStaleDebit ==
    \A u \in DOMAIN m_users :
        /\ m_users[u].credits >= 0
        /\ m_users[u].credits = SignupCredits + SumOfDeltas(m_transactions, u)


\* C16: under any interleaving of concurrent assign_project_to_node calls
\* the same available node is never assigned to two projects: an assignment
\* stamps a project only on a node that is available and serves no project,
\* and no project is the current project of two nodes.
C16_NodeAssignedOnce ==
    [][/\ \A n \in DOMAIN g_nodes :
            (/\ g_nodes'[n].current_project_id # g_nodes[n].current_project_id
             /\ g_nodes'[n].current_project_id # None)
            => /\ g_nodes[n].status = "available"
               /\ g_nodes[n].current_project_id = None
       /\ \A n1, n2 \in DOMAIN g_nodes' :
            (/\ g_nodes'[n1].current_project_id # None
             /\ g_nodes'[n1].current_project_id = g_nodes'[n2].current_project_id)
            => n1 = n2
      ]_vars


\* C17: every project created by POST /api/v1/projects eventually reaches
\* status complete or failed, given that every call to the script, video and
\* storage backends returns or times out.
C17_EveryProjectEnds ==
    \A k \in 1 .. MaxProjects :
        (k \in DOMAIN m_projects)
        ~> (k \in DOMAIN m_projects /\ m_projects[k].status \in {"complete", "failed"})


\* the error texts of the background stages
ErrorTexts ==
    {"Script generation failed", "Storyboard generation failed",
     "UnboundLocalError: script", "UnboundLocalError: storyboard",
     "Assembly failed", "Pod failed to start", "File upload failed"}

C19_ProgressMonotone ==
    [][\A k \in DOMAIN m_projects' :
          /\ m_projects'[k].progress \in 0 .. 100
          /\ k \in DOMAIN m_projects
               => m_projects'[k].progress >= m_projects[k].progress
      ]_vars

\* a project failed after its storyboard was done and kept its progress
C19_Witness ==
    \E k \in DOMAIN m_projects :
        /\ m_projects[k].status = "failed"
        /\ m_projects[k].progress = 50


\* C20: every successful ledger application (add_credits, use_credits)
\* appends exactly one Transaction row whose credit delta is the applied
\* delta and changes that user's balance by exactly that delta in the same
\* commit, leaving every other user's balance and every existing Transaction
\* row unchanged.
C20_LedgerFrame ==
    [][m_transactions' # m_transactions
        => LET n == Len(m_transactions)
               row == m_transactions'[n + 1]
           IN  /\ Len(m_transactions') = n + 1
               /\ SubSeq(m_transactions', 1, n) = m_transactions
               /\ row.user_id \in DOMAIN m_users
               /\ m_users'[row.user_id].credits
                    = m_users[row.user_id].credits + row.credits
               /\ \A u \in DOMAIN m_users :
                    u # row.user_id => m_users'[u] = m_users[u]
      ]_vars


\* the GPU classes the claim C21 lists for a duration
C21_Classes(duration_minutes) ==
    IF duration_minutes <= 30 THEN {"rtx4090", "a100_40gb"}
    ELSE IF duration_minutes <= 90 THEN {"a100_40gb", "a100_80gb"}
    ELSE {"a100_80gb", "h100"}

\* C21: when assign_project_to_node returns a node id, that node had status
\* available, its GPU class is in the class set of the duration tier, no
\* other eligible node has a higher performance score or an equal score with
\* a lower hourly cost, and afterwards exactly that node is busy with
\* current_project_id equal to the project id (every other row is as before).
C21_BestEligibleNodeAssigned ==
    [][\A project_id \in 1 .. MaxProjects, duration_minutes \in TierDurations :
          (/\ assign_project_to_node(project_id, duration_minutes)
           /\ g_ret' # g_ret
           /\ g_ret'.op = "assign"
           /\ g_ret'.node_id # None)
          => LET n == g_ret'.node_id
                 Eligible(j) == /\ g_nodes[j].status = "available"
                                /\ g_nodes[j].gpu_type \in C21_Classes(duration_minutes)
             IN  /\ n \in DOMAIN g_nodes
                 /\ Eligible(n)
                 /\ \A j \in DOMAIN g_nodes :
                      Eligible(j) =>
                        /\ g_nodes[j].performance_score <= g_nodes[n].performance_score
                        /\ g_nodes[j].performance_score = g_nodes[n].performance_score
                             => g_nodes[j].hourly_cost >= g_nodes[n].hourly_cost
                 /\ g_ret'.project_id = project_id
                 /\ g_nodes' = [g_nodes EXCEPT ![n].status = "busy",
                                               ![n].current_project_id = project_id]
      ]_vars

\* an assignment returned the cheaper of two eligible nodes: the dearer one
\* is still available
C21_Witness ==
    /\ g_ret.op = "assign"
    /\ g_ret.node_id # None
    /\ g_nodes[g_ret.node_id].status = "busy"
    /\ g_nodes[g_ret.node_id].current_project_id = g_ret.project_id
    /\ \E j \in DOMAIN g_nodes :
          /\ g_nodes[j].status = "available"
          /\ g_nodes[j].hourly_cost > g_nodes[g_ret.node_id].hourly_cost


\* the position of a provider in the ascending order of the hourly costs
\* the claim C22 names: vast, then runpod, then lambda
C22_CostRank(provider_name) ==
    CASE provider_name = "vast" -> 1
      [] provider_name = "runpod" -> 2
      [] provider_name = "lambda" -> 3

\* C22: scale_up(n) persists exactly one new GPUNode with status available
\* per instance a provider launched, never more than n in total, and tries
\* the providers in ascending cost order (vast, runpod, lambda), using the
\* next provider only for nodes still missing; existing nodes are unchanged.
C22_ScaleUpPersistsLaunchedNodes ==
    [][ScaleUpLaunch =>
         LET added == Len(g_up'.new_nodes) - Len(g_up.new_nodes)
         IN  IF g_up'.pc = "launch"
             THEN \* the call goes on to the next provider
                  /\ g_nodes' = g_nodes
                  /\ added = g_up.nodes_to_add - g_up'.nodes_to_add
                  /\ g_up'.nodes_to_add > 0
                  /\ C22_CostRank(ProviderOrder[g_up'.provider])
                       = C22_CostRank(ProviderOrder[g_up.provider]) + 1
                  /\ \A k \in 1 .. Len(g_up'.new_nodes) :
                       C22_CostRank(g_up'.new_nodes[k].provider)
                         <= C22_CostRank(ProviderOrder[g_up.provider])
             ELSE \* the commit
                  LET n == Len(g_nodes)
                      new == SubSeq(g_nodes', n + 1, Len(g_nodes'))
                  IN  /\ SubSeq(g_nodes', 1, n) = g_nodes
                      /\ Len(new) <= g_up.required_capacity
                      /\ Len(new) - Len(g_up.new_nodes) <= g_up.nodes_to_add
                      /\ SubSeq(new, 1, Len(g_up.new_nodes)) = g_up.new_nodes
                      /\ \A k \in 1 .. Len(new) :
                           /\ new[k].status = "available"
                           /\ new[k].current_project_id = None
                           /\ C22_CostRank(new[k].provider)
                                <= C22_CostRank(ProviderOrder[g_up.provider])
                           /\ k > Len(g_up.new_nodes)
                                => new[k].provider = ProviderOrder[g_up.provider]
                      /\ \A a, b \in 1 .. Len(new) :
                           a < b => C22_CostRank(new[a].provider)
                                      <= C22_CostRank(new[b].provider)
      ]_vars

\* a scale_up for two nodes got one instance from vast and the missing one
\* from runpod
C22_Witness ==
    /\ g_ret.op = "scale_up"
    /\ g_ret.added = 2
    /\ \E a, b \in DOMAIN g_nodes :
          /\ a < b
          /\ g_nodes[a].provider = "vast"
          /\ g_nodes[b].provider = "runpod"


\* C23: scale_down(n) marks a node terminated only if the provider's
\* terminate call for it succeeded: a node whose call fails keeps its status
\* and is not in the returned list, a node whose call succeeds is in it, no
\* other row changes, and at most n nodes are terminated per call (the call
\* selects at most n rows, and the rows marked and the rows still to ask for
\* never become more).
C23_TerminatedOnlyOnSuccess ==
    [][/\ \A n \in 1 .. MaxCount :
             (scale_down(n) /\ g_down'.pc = "terminate")
             => /\ Len(g_down'.idle_nodes) <= n
                /\ g_down'.terminated = <<>>
       /\ \A ok \in BOOLEAN :
             (g_down.pc = "terminate" /\ TerminateReturns(ok))
             => LET node == Head(g_down.idle_nodes)
                    marked == IF g_down'.pc = "idle" THEN g_ret'.terminated
                              ELSE g_down'.terminated
                IN  /\ ok => node \in Range(marked)
                    /\ ~ok => /\ node \notin Range(marked)
                              /\ g_nodes'[node].status = g_nodes[node].status
                    /\ Range(marked) \ {node} = Range(g_down.terminated)
                    /\ Len(marked) + Len(g_down'.idle_nodes)
                          <= Len(g_down.terminated) + Len(g_down.idle_nodes)
                    /\ \A i \in DOMAIN g_nodes :
                         g_nodes'[i] # g_nodes[i]
                         => /\ i \in Range(marked)
                            /\ g_nodes'[i] = [g_nodes[i] EXCEPT !.status = "terminated"]
      ]_vars

\* a scale_down has returned an empty list although a row it selected is
\* still idle: the provider's call for it failed and the row kept its status
\* (every change of the table replaces the last return)
C23_Witness ==
    /\ g_ret.op = "scale_down"
    /\ g_ret.terminated = <<>>
    /\ \E i \in DOMAIN g_nodes : IsIdle(g_nodes[i])


\* C24: a node that assign_project_to_node marked busy for a project is
\* eventually released: it returns to status available with
\* current_project_id cleared.
C24_BusyNodeReleased ==
    \A n \in 1 .. MaxNodes :
        (n \in DOMAIN g_nodes /\ g_nodes[n].status = "busy")
        ~> (/\ n \in DOMAIN g_nodes
            /\ g_nodes[n].status = "available"
            /\ g_nodes[n].current_project_id = None)


\* C25: if assign_project_to_node returns None for a project of any duration
\* and provider launches succeed, then retrying the assignment for that
\* project eventually returns a node id (some node serves the project).
C25_RetryGetsNode ==
    \A project_id \in 1 .. MaxProjects :
        (\E w \in Workers : /\ w_calls[w].pc = "retry"
                            /\ w_calls[w].project_id = project_id)
        ~> (\E n \in DOMAIN g_nodes : g_nodes[n].current_project_id = project_id)


\* the error texts of a stage that failed: a backend call that raised or
\* answered with a failure
StageFailures ==
    {"Script generation failed", "Storyboard generation failed",
     "Assembly failed", "Pod failed to start", "File upload failed"}

\* C26: for every combination of include_script and include_storyboard, a
\* project whose requested stages, video generation, assembly and upload all
\* succeed reaches status complete with progress 100 and a film_url set: a
\* background task that has ended without a failed stage leaves its project
\* complete.
C26_SuccessfulStagesComplete ==
    \A i \in DOMAIN m_tasks :
        LET project == m_projects[m_tasks[i].project_id]
        IN  (/\ m_tasks[i].pc = "done"
             /\ \A k \in DOMAIN project.metadata :
                   project.metadata[k] \notin StageFailures)
            => (/\ project.status = "complete"
                /\ project.progress = 100
                /\ project.film_url # "none")

\* C27: every invocation of RunPodClient.generate_film that starts the pod
\* stops it again before control leaves generate_film, on every path:
\* success, a failed assembly response, a timeout, or an exception raised
\* during scene generation or assembly.
C27_StartedPodStopped ==
    \A i \in DOMAIN r_films :
        (r_films[i].pc \in {"returned", "raised", "left"} /\ r_films[i].started)
        => r_films[i].stopped


\* C28: when two projects generate concurrently through the shared
\* runpod_client, the pod is never stopped by one project's generate_film
\* while the other project's scene generation or assembly is in progress.
C28_NoStopUnderAnotherFilm ==
    [][\A i \in DOMAIN r_films :
          (r_films[i].pc = "stop" /\ r_films'[i].pc = "returned")
          => \A j \in DOMAIN r_films \ {i} :
                r_films[j].pc \notin {"scenes", "generating", "assemble"}
      ]_vars


\* C29: a project reaches status complete only if the video generation of
\* every storyboard scene succeeded: a scene whose generation failed is never
\* left out of the assembled film of a project marked complete.
C29_CompleteHasEveryScene ==
    \A i \in DOMAIN m_tasks :
        m_projects[m_tasks[i].project_id].status = "complete"
        => \A k \in DOMAIN r_films[i].scenes : r_films[i].scenes[k]


\* C30: on the video backend, every job accepted by POST /generate-video
\* eventually leaves video_queue and is recorded in completed_jobs with
\* status completed or failed, and at every moment each accepted video_id is
\* in exactly one of video_queue, processing_jobs and completed_jobs.
C30_AcceptedJobsEnd ==
    /\ \A id \in 1 .. MaxJobs :
          (id <= v_next)
          ~> (/\ \A k \in DOMAIN v_queue : v_queue[k].video_id # id
              /\ \E job \in v_completed :
                    job.video_id = id /\ job.status \in {"completed", "failed"})
    /\ [](\A id \in 1 .. v_next :
            Cardinality({k \in DOMAIN v_queue : v_queue[k].video_id = id})
              + Cardinality({job \in v_processing : job.video_id = id})
              + Cardinality({job \in v_completed : job.video_id = id}) = 1)


====
